---- MODULE Spec2Model ----
(***************************************************************************)
(* goradieschen: an in-memory key-value server with per-key expiration.    *)
(* The model covers the TTL scheduler (ttlstore: a container/heap min-heap *)
(* of *TTLItem plus a key -> *TTLItem map, one mutex, a one-slot wake      *)
(* channel and the background worker run), the key-value Store and the     *)
(* command dispatcher ParseCommand that binds them.                        *)
(*                                                                         *)
(* Time is an integer number of ticks.  A *TTLItem is an object: the heap  *)
(* array and the map hold references (item ids) into the object table     *)
(* `items`, so that a Swap that rewrites item.index through the heap is    *)
(* seen through the map, as with Go pointers.                              *)
(***************************************************************************)
EXTENDS Integers, Sequences, FiniteSets, Bags, TLC

\* ------------------------------------------------------------------ bounds
MaxTime == 2       \* the clock runs over 0..MaxTime
MaxCalls == 3      \* client calls (API calls or commands) made in one run
MaxLiveCalls == 2  \* client calls in one run of the specifications with fairness
DurationBits == 5  \* width of int and time.Duration (64 in the build)
FloatBits == 3     \* significant bits of a float (53 in a float64)
MaxLateCalls == 2  \* commands the second connection may still send after MaxCalls
MaxArgs == 3       \* arguments of a request
MaxParts == 2      \* elements of a well-formed frame
MaxReads == 4      \* passes of a connection handler's loop

TicksPerSecond == 2          \* time.Second, in ticks

Keys == {"a", "b", "c"}
NoKey == "-"
Times == 0..MaxTime
ItemIds == 1..MaxCalls       \* every SetTTL allocates at most one item
Nil == 0                     \* the nil *TTLItem

VARIABLES
  now,         \* time.Now(), in ticks
  heap,        \* TTLStore.heap: sequence of item ids (Go index i is heap[i+1])
  items,       \* the TTLItem objects: id -> [Key, ExpiresAt, index]
  entries,     \* TTLStore.entries: key -> item id, Nil when absent
  wake,        \* number of signals buffered in TTLStore.wake (capacity 1)
  stopClosed,  \* TTLStore.stop has been closed
  ctxDone,     \* the context given to NewTTLStore is cancelled
  mu,          \* TTLStore.mu: "free" or its holder
  wpc,         \* position of the worker goroutine in run
  next,        \* run's local `next`: the peeked item's ExpiresAt, or NoTime
  spawned,     \* goroutines started by `go s.DeleteFn(key)` and not yet run
  data,        \* Store.data: key -> value, NoVal when absent
  calls,       \* client calls made so far
  ret,         \* the last API call on the scheduler and what it returned
  conn,        \* per connection: the command ParseCommand is running, its locals
  made,        \* per key: the seconds of the last EXPIRE that set its TTL
  req,         \* the last request ParseCommand answered without a Store or TTL call
  reader,      \* the bufio.Reader of a connection and the last DecodeCommand on it
  call,        \* the last call of an encoder made from outside ParseCommand
  fresh,       \* per key: its value was stored by a SET made while a deletion
               \* callback for the key was started and had not run
  reborn       \* per key: "deleted" once DEL has removed it, "reborn" once SET
               \* has stored it again, "none" from its next EXPIRE or removal

vars == <<now, heap, items, entries, wake, stopClosed, ctxDone, mu, wpc, next,
          spawned, data, calls, ret, conn, made, req, reader, call, fresh, reborn>>

NoTime == -1000              \* time.Time{}, and run's next == nil
NoVal == "-"
Vals == {"v"}

FreeItem == [Key |-> NoKey, ExpiresAt |-> 0, index |-> -1]

\* ------------------------------------------------------- TTLHeap (heap.Interface)
\* A heap value is [h |-> sequence of ids, it |-> object table].

HeapOf(h, it) == [h |-> h, it |-> it]

\* TTLHeap.Len
HLen(s) == Len(s.h)

\* Less with the comparison the wrong way round (a max-heap)
LessReversed(s, i, j) == s.it[s.h[i + 1]].ExpiresAt > s.it[s.h[j + 1]].ExpiresAt

\* TTLHeap.Less: h[i].ExpiresAt.Before(h[j].ExpiresAt)
Less(s, i, j) == s.it[s.h[i + 1]].ExpiresAt < s.it[s.h[j + 1]].ExpiresAt

\* Swap as it would be without the two index assignments
SwapNoIndex(s, i, j) ==
  LET a == s.h[i + 1]
      b == s.h[j + 1]
  IN  [h |-> [s.h EXCEPT ![i + 1] = b, ![j + 1] = a], it |-> s.it]

\* TTLHeap.Swap: exchange the two slots, then h[i].index = i; h[j].index = j
Swap(s, i, j) ==
  LET a == s.h[i + 1]
      b == s.h[j + 1]
      h1 == [s.h EXCEPT ![i + 1] = b, ![j + 1] = a]
      it1 == [s.it EXCEPT ![b].index = i]
      it2 == [it1 EXCEPT ![a].index = j]
  IN  [h |-> h1, it |-> it2]

\* TTLHeap.Push: item.index = len(*h); *h = append(*h, item)
HPushRaw(s, id) ==
  [h |-> Append(s.h, id), it |-> [s.it EXCEPT ![id].index = Len(s.h)]]

\* TTLHeap.Pop: take the last slot off, item.index = -1.  The popped object is
\* returned by value; its slot in the object table is released.
HPopRaw(s) ==
  LET n == Len(s.h)
      id == s.h[n]
      h1 == SubSeq(s.h, 1, n - 1)
      gone == [s.it[id] EXCEPT !.index = -1]
      stillUsed == \E p \in 1..Len(h1) : h1[p] = id
  IN  [h |-> h1,
       it |-> IF stillUsed THEN [s.it EXCEPT ![id].index = -1]
                           ELSE [s.it EXCEPT ![id] = FreeItem],
       item |-> gone]

\* TTLHeap.Peek: the root's id, Nil when the heap is empty
Peek(h) == IF Len(h) = 0 THEN Nil ELSE h[1]

\* ------------------------------------------------------- container/heap
\* Go's integer division truncates toward zero: (0 - 1) / 2 = 0.
GoDiv(a, b) == IF a >= 0 THEN a \div b ELSE -((-a) \div b)

\* heap.up
RECURSIVE up(_, _)
up(s, j) ==
  LET i == GoDiv(j - 1, 2)
  IN  IF i = j \/ ~Less(s, j, i) THEN s ELSE up(Swap(s, i, j), i)

\* heap.down's loop: returns the heap and the final position i
RECURSIVE downLoop(_, _, _)
downLoop(s, i, n) ==
  LET j1 == 2 * i + 1
      j2 == j1 + 1
      j == IF j2 < n /\ Less(s, j2, j1) THEN j2 ELSE j1
  IN  IF j1 >= n THEN [s |-> s, i |-> i]
      ELSE IF ~Less(s, j, i) THEN [s |-> s, i |-> i]
      ELSE downLoop(Swap(s, i, j), j, n)

\* heap.down: moved reports i > i0
down(s, i0, n) ==
  LET r == downLoop(s, i0, n) IN [s |-> r.s, moved |-> r.i > i0]

\* heap.Init: for i := n/2 - 1; i >= 0; i-- { down(h, i, n) }
RECURSIVE initLoop(_, _, _)
initLoop(s, i, n) ==
  IF i < 0 THEN s ELSE initLoop(down(s, i, n).s, i - 1, n)

heapInit(s) == initLoop(s, GoDiv(HLen(s), 2) - 1, HLen(s))

\* heap.Push: h.Push(x); up(h, h.Len()-1)
heapPush(s, id) ==
  LET s1 == HPushRaw(s, id) IN up(s1, HLen(s1) - 1)

\* heap.Pop: n := h.Len()-1; h.Swap(0, n); down(h, 0, n); return h.Pop()
heapPop(s) ==
  LET n == HLen(s) - 1
      s1 == Swap(s, 0, n)
      s2 == down(s1, 0, n).s
  IN  HPopRaw(s2)

\* heap.Remove: n := h.Len()-1; if n != i { Swap(i, n); if !down(i, n) { up(i) } };
\* return h.Pop()
heapRemove(s, i) ==
  LET n == HLen(s) - 1
      s1 == Swap(s, i, n)
      d == down(s1, i, n)
      s2 == IF n # i THEN (IF d.moved THEN d.s ELSE up(d.s, i)) ELSE s
  IN  HPopRaw(s2)

\* ------------------------------------------------------- TTLStore state
\* The lock-protected part of a TTLStore: [h, it, e].
TTLState == [h |-> heap, it |-> items, e |-> entries]

\* &TTLItem{Key: key, ExpiresAt: expiresAt}: the lowest free slot of the table
AllocId(it) ==
  CHOOSE id \in ItemIds :
    /\ it[id].Key = NoKey
    /\ \A j \in ItemIds : it[j].Key = NoKey => id <= j

\* SetTTL as it would be without the overwrite branch
RemoveOldSkipped(st, key) == st

\* SetTTL, "Overwrite existing key":
\*   if old, exists := s.entries[key]; exists {
\*       heap.Remove(&s.heap, old.index); delete(s.entries, key) }
RemoveOld(st, key) ==
  IF st.e[key] # Nil
  THEN LET r == heapRemove(HeapOf(st.h, st.it), st.it[st.e[key]].index)
       IN  [h |-> r.h, it |-> r.it, e |-> [st.e EXCEPT ![key] = Nil]]
  ELSE st

\* SetTTL, the insertion: heap.Push(&s.heap, item); s.entries[key] = item
InsertNew(st, key, expiresAt) ==
  LET id == AllocId(st.it)
      it1 == [st.it EXCEPT ![id] =
                [Key |-> key, ExpiresAt |-> expiresAt, index |-> 0]]
      r == heapPush(HeapOf(st.h, it1), id)
  IN  [h |-> r.h, it |-> r.it, e |-> [st.e EXCEPT ![key] = id]]

\* The critical section of SetTTL on the lock-protected state
SetTTLState(st, key, expiresAt) == InsertNew(RemoveOld(st, key), key, expiresAt)

\* SetTTL as it would be without the notification
NotifyNever(w) == w

\* SetTTL's notification: select { case s.wake <- struct{}{}: default: }
\* A send into the free slot buffers one signal; with the slot taken the
\* default branch drops the notification.
Notify(w) == IF w = 0 THEN 1 ELSE w

\* GetTTL under the lock: (item.ExpiresAt, true) or (time.Time{}, false)
GetTTLOf(st, key) ==
  IF st.e[key] = Nil
  THEN [at |-> NoTime, found |-> FALSE,
             old |-> NoTime]
  ELSE [at |-> st.it[st.e[key]].ExpiresAt, found |-> TRUE]

\* FlushAll under the lock: s.heap = TTLHeap{}; heap.Init(&s.heap);
\* s.entries = make(map[string]*TTLItem)
FlushAllState(st) ==
  LET r == heapInit(HeapOf(<<>>, [id \in ItemIds |-> FreeItem]))
  IN  [h |-> r.h, it |-> r.it, e |-> [k \in Keys |-> Nil]]

\* ------------------------------------------------------- TTLStore API calls
\* ret holds the last client call: its name and key; for GetTTL the
\* (time, bool) it returned in (at, found); for SetTTL its expiresAt argument in
\* `at` and its locals `old, exists` in (old, found), old as old.ExpiresAt.
NoRet ==
  [op |-> "none", key |-> NoKey, at |-> NoTime, found |-> FALSE, old |-> NoTime]

SetTTL(key, expiresAt) ==
  /\ calls < MaxCalls
  /\ mu = "free"
  /\ LET st == SetTTLState(TTLState, key, expiresAt)
     IN  /\ heap' = st.h
         /\ items' = st.it
         /\ entries' = st.e
  /\ wake' = Notify(wake)
  /\ calls' = calls + 1
  /\ ret' = [op |-> "SetTTL", key |-> key, at |-> expiresAt,
             found |-> GetTTLOf(TTLState, key).found,
             old |-> GetTTLOf(TTLState, key).at]
  /\ UNCHANGED <<now, stopClosed, ctxDone, mu, wpc, next, spawned, data,
                 conn, made, req, reader, call, fresh, reborn>>

GetTTL(key) ==
  /\ calls < MaxCalls
  /\ mu = "free"
  /\ LET r == GetTTLOf(TTLState, key)
     IN  ret' = [op |-> "GetTTL", key |-> key, at |-> r.at, found |-> r.found,
                 old |-> NoTime]
  /\ calls' = calls + 1
  /\ UNCHANGED <<now, heap, items, entries, wake, stopClosed, ctxDone, mu, wpc,
                 next, spawned, data,
                 conn, made, req, reader, call, fresh, reborn>>

FlushAll ==
  /\ calls < MaxCalls
  /\ mu = "free"
  /\ LET st == FlushAllState(TTLState)
     IN  /\ heap' = st.h
         /\ items' = st.it
         /\ entries' = st.e
  /\ calls' = calls + 1
  /\ ret' = [op |-> "FlushAll", key |-> NoKey, at |-> NoTime, found |-> FALSE,
             old |-> NoTime]
  /\ UNCHANGED <<now, wake, stopClosed, ctxDone, mu, wpc, next, spawned, data,
                 conn, made, req, reader, call, fresh, reborn>>

\* Stop: close(s.stop).  A second close panics, so Stop is called once.
Stop ==
  /\ calls < MaxCalls
  /\ ~stopClosed
  /\ stopClosed' = TRUE
  /\ calls' = calls + 1
  /\ ret' = [op |-> "Stop", key |-> NoKey, at |-> NoTime, found |-> FALSE,
             old |-> NoTime]
  /\ UNCHANGED <<now, heap, items, entries, wake, ctxDone, mu, wpc, next,
                 spawned, data,
                 conn, made, req, reader, call, fresh, reborn>>

\* cancel() of the context handed to NewTTLStore (main.handleSignals)
Cancel ==
  /\ ~ctxDone
  /\ ctxDone' = TRUE
  /\ UNCHANGED <<now, heap, items, entries, wake, stopClosed, mu, wpc, next,
                 spawned, data, calls, ret,
                 conn, made, req, reader, call, fresh, reborn>>

\* The clock advances by one tick.
Tick ==
  /\ now < MaxTime
  /\ now' = now + 1
  /\ UNCHANGED <<heap, items, entries, wake, stopClosed, ctxDone, mu, wpc, next,
                 spawned, data, calls, ret,
                 conn, made, req, reader, call, fresh, reborn>>

\* ------------------------------------------------------- the worker: run
\* for { s.mu.Lock(); next := s.heap.Peek(); s.mu.Unlock() ...
WorkerPeek ==
  /\ wpc = "peek"
  /\ mu = "free"
  /\ next' = IF Peek(heap) = Nil THEN NoTime ELSE items[Peek(heap)].ExpiresAt
  /\ wpc' = "check"
  /\ UNCHANGED <<now, heap, items, entries, wake, stopClosed, ctxDone, mu,
                 spawned, data, calls, ret,
                 conn, made, req, reader, call, fresh, reborn>>

\* Where run goes after the peek: the idle select when next == nil; otherwise
\* sleep := time.Until(next.ExpiresAt), the timed select when sleep > 0 and
\* straight to the drain when not.
AfterPeek(nxt, t) ==
  IF nxt = NoTime THEN "idle"
  ELSE IF nxt - t > 0 THEN "timed"
  ELSE "lock"

WorkerCheck ==
  /\ wpc = "check"
  /\ wpc' = AfterPeek(next, now)
  /\ next' = IF wpc' = "timed" THEN next ELSE NoTime
  /\ UNCHANGED <<now, heap, items, entries, wake, stopClosed, ctxDone, mu,
                 spawned, data, calls, ret,
                 conn, made, req, reader, call, fresh, reborn>>

\* idle select, case <-s.wake: continue
WorkerIdleWake ==
  /\ wpc = "idle"
  /\ wake > 0
  /\ wake' = wake - 1
  /\ wpc' = "peek"
  /\ UNCHANGED <<now, heap, items, entries, stopClosed, ctxDone, mu, next,
                 spawned, data, calls, ret,
                 conn, made, req, reader, call, fresh, reborn>>

\* idle select, case <-ctx.Done(): return
WorkerIdleCancel ==
  /\ wpc = "idle"
  /\ ctxDone
  /\ wpc' = "done"
  /\ UNCHANGED <<now, heap, items, entries, wake, stopClosed, ctxDone, mu, next,
                 spawned, data, calls, ret,
                 conn, made, req, reader, call, fresh, reborn>>

\* timed select, case <-time.After(sleep): the timer set for now + sleep, which
\* is next.ExpiresAt, has fired
WorkerTimedFire ==
  /\ wpc = "timed"
  /\ now >= next
  /\ wpc' = "lock"
  /\ next' = NoTime
  /\ UNCHANGED <<now, heap, items, entries, wake, stopClosed, ctxDone, mu,
                 spawned, data, calls, ret,
                 conn, made, req, reader, call, fresh, reborn>>

\* timed select, case <-s.wake: continue
WorkerTimedWake ==
  /\ wpc = "timed"
  /\ wake > 0
  /\ wake' = wake - 1
  /\ wpc' = "peek"
  /\ next' = NoTime
  /\ UNCHANGED <<now, heap, items, entries, stopClosed, ctxDone, mu, spawned,
                 data, calls, ret,
                 conn, made, req, reader, call, fresh, reborn>>

\* The timed select as it would be without the ctx.Done() case
WorkerTimedCancelMissing == FALSE /\ UNCHANGED vars

\* timed select, case <-ctx.Done(): return
WorkerTimedCancel ==
  /\ wpc = "timed"
  /\ ctxDone
  /\ wpc' = "done"
  /\ next' = NoTime
  /\ UNCHANGED <<now, heap, items, entries, wake, stopClosed, ctxDone, mu,
                 spawned, data, calls, ret,
                 conn, made, req, reader, call, fresh, reborn>>

\* "Expire items": s.mu.Lock()
WorkerLock ==
  /\ wpc = "lock"
  /\ mu = "free"
  /\ mu' = "worker"
  /\ wpc' = "drain"
  /\ UNCHANGED <<now, heap, items, entries, wake, stopClosed, ctxDone, next,
                 spawned, data, calls, ret,
                 conn, made, req, reader, call, fresh, reborn>>

\* The drain loop's exit test:
\*   s.heap.Len() == 0 || s.heap.Peek().ExpiresAt.After(time.Now())
\* The drain loop's exit as it would be with the emptiness test alone
DrainBreakEmptyOnly(st, t) == Len(st.h) = 0

DrainBreak(st, t) ==
  IF Len(st.h) = 0 THEN TRUE ELSE st.it[Peek(st.h)].ExpiresAt > t

\* The drain loop's body as it would be without delete(s.entries, item.Key)
DrainOneNoDelete(st) ==
  LET r == heapPop(HeapOf(st.h, st.it))
  IN  [h |-> r.h, it |-> r.it, e |-> st.e, item |-> r.item]

\* One pass of the drain loop's body on the lock-protected state:
\*   item := heap.Pop(&s.heap).(*TTLItem); delete(s.entries, item.Key)
\* with the popped item the callback is started for
DrainOne(st) ==
  LET r == heapPop(HeapOf(st.h, st.it))
  IN  [h |-> r.h, it |-> r.it, e |-> [st.e EXCEPT ![r.item.Key] = Nil],
       item |-> r.item]

\* `go s.DeleteFn(item.Key)`: a goroutine holding the key.  ExpiresAt is kept
\* with it to tell which entry the goroutine was started for.
Goroutine(item) == [Key |-> item.Key, ExpiresAt |-> item.ExpiresAt]

\* A pass of the drain loop that calls s.DeleteFn(item.Key) itself, with the
\* lock held, where the callback calls back into the TTLStore: the worker
\* waits in mu.Lock() for the lock it holds
WorkerExpireInline ==
  /\ wpc = "drain"
  /\ ~DrainBreak(TTLState, now)
  /\ LET st == DrainOne(TTLState)
     IN  /\ heap' = st.h
         /\ items' = st.it
         /\ entries' = st.e
         /\ spawned' = spawned (+) SetToBag({Goroutine(st.item)})
  /\ wpc' = "calling"
  /\ UNCHANGED <<now, wake, stopClosed, ctxDone, mu, next, data, calls, ret,
                 conn, made, req, reader, call, fresh, reborn>>

\* A pass of the drain loop that pops an expired entry
WorkerExpire ==
  /\ wpc = "drain"
  /\ ~DrainBreak(TTLState, now)
  /\ LET st == DrainOne(TTLState)
     IN  /\ heap' = st.h
         /\ items' = st.it
         /\ entries' = st.e
         /\ spawned' = spawned (+) SetToBag({Goroutine(st.item)})
  /\ UNCHANGED <<now, wake, stopClosed, ctxDone, mu, wpc, next, data, calls, ret,
                 conn, made, req, reader, call, fresh, reborn>>

\* A drain that waits for the callbacks it started before it unlocks
WorkerDrainDoneJoin ==
  /\ wpc = "drain"
  /\ DrainBreak(TTLState, now)
  /\ spawned = EmptyBag
  /\ mu' = "free"
  /\ wpc' = "peek"
  /\ UNCHANGED <<now, heap, items, entries, wake, stopClosed, ctxDone, next,
                 spawned, data, calls, ret,
                 conn, made, req, reader, call, fresh, reborn>>

\* The drain loop breaks: s.mu.Unlock(), back to the top of run's loop
WorkerDrainDone ==
  /\ wpc = "drain"
  /\ DrainBreak(TTLState, now)
  /\ mu' = "free"
  /\ wpc' = "peek"
  /\ UNCHANGED <<now, heap, items, entries, wake, stopClosed, ctxDone, next,
                 spawned, data, calls, ret,
                 conn, made, req, reader, call, fresh, reborn>>

\* The worker's steps while its context is live
Worker ==
  \/ WorkerPeek
  \/ WorkerCheck
  \/ WorkerIdleWake
  \/ WorkerTimedFire
  \/ WorkerTimedWake
  \/ WorkerLock
  \/ WorkerExpire
  \/ WorkerDrainDone

\* case <-ctx.Done(): return, in either select
WorkerExit ==
  \/ WorkerIdleCancel
  \/ WorkerTimedCancel

\* ------------------------------------------------------- Store and DeleteFn
\* Store.Delete without the delete
StoreDeleteKept(d, key) == d

\* Store.Delete: delete(s.data, key)
StoreDelete(d, key) == [d EXCEPT ![key] = NoVal]

\* A spawned goroutine runs main's deleteFn: log, then s.Delete(key)
RunCallback(g) ==
  /\ BagIn(g, spawned)
  /\ spawned' = spawned (-) SetToBag({g})
  /\ data' = StoreDelete(data, g.Key)
  /\ fresh' = [fresh EXCEPT ![g.Key] = FALSE]
  /\ reborn' = [reborn EXCEPT ![g.Key] = "none"]
  /\ UNCHANGED <<now, heap, items, entries, wake, stopClosed, ctxDone, mu, wpc,
                 next, calls, ret,
                 conn, made, req, reader, call>>

\* A DeleteFn that calls back into the TTLStore that started it.  The call is
\* made by the callback's own goroutine, which waits in mu.Lock() while the
\* worker holds the lock.  ret records the call, its op marked "DeleteFn".
\* A callback for an entry that expired before the end of the clock sets a new
\* TTL for its key, at the end of the clock.
CallbackSetTTL(g) ==
  /\ BagIn(g, spawned)
  /\ g.ExpiresAt < MaxTime
  /\ mu = "free"
  /\ spawned' = spawned (-) SetToBag({g})
  /\ LET st == SetTTLState(TTLState, g.Key, MaxTime)
     IN  /\ heap' = st.h
         /\ items' = st.it
         /\ entries' = st.e
  /\ wake' = Notify(wake)
  /\ ret' = [op |-> "DeleteFn SetTTL", key |-> g.Key, at |-> MaxTime,
             found |-> GetTTLOf(TTLState, g.Key).found,
             old |-> GetTTLOf(TTLState, g.Key).at]
  /\ UNCHANGED <<now, stopClosed, ctxDone, mu, wpc, next, data, calls,
                 conn, made, req, reader, call, fresh, reborn>>

CallbackGetTTL(g) ==
  /\ BagIn(g, spawned)
  /\ mu = "free"
  /\ spawned' = spawned (-) SetToBag({g})
  /\ LET r == GetTTLOf(TTLState, g.Key)
     IN  ret' = [op |-> "DeleteFn GetTTL", key |-> g.Key, at |-> r.at,
                 found |-> r.found, old |-> NoTime]
  /\ UNCHANGED <<now, heap, items, entries, wake, stopClosed, ctxDone, mu, wpc,
                 next, data, calls,
                 conn, made, req, reader, call, fresh, reborn>>

CallbackFlushAll(g) ==
  /\ BagIn(g, spawned)
  /\ mu = "free"
  /\ spawned' = spawned (-) SetToBag({g})
  /\ LET st == FlushAllState(TTLState)
     IN  /\ heap' = st.h
         /\ items' = st.it
         /\ entries' = st.e
  /\ ret' = [op |-> "DeleteFn FlushAll", key |-> g.Key, at |-> NoTime,
             found |-> FALSE, old |-> NoTime]
  /\ UNCHANGED <<now, wake, stopClosed, ctxDone, mu, wpc, next, data, calls,
                 conn, made, req, reader, call, fresh, reborn>>

ReentrantCallbacks ==
  \E g \in BagToSet(spawned) :
    \/ CallbackSetTTL(g)
    \/ CallbackGetTTL(g)
    \/ CallbackFlushAll(g)

\* Store.Set: s.data[key] = value
StoreSet(d, key, value) == [d EXCEPT ![key] = value]

\* Store.Get: value, ok := s.data[key]
StoreGet(d, key) == [value |-> d[key], ok |-> d[key] # NoVal]

\* Store.FlushAll without the new map
StoreFlushAllKept(d) == d

\* Store.FlushAll: s.data = make(map[string]string)
StoreFlushAll(d) == [k \in DOMAIN d |-> NoVal]

\* ------------------------------------------------------- replies (resp2)
CRLF == "\r\n"

EncodeSimpleString(s) == "+" \o s \o CRLF

EncodeInteger(n) == ":" \o ToString(n) \o CRLF

\* A *string is [nil, v]: the nil pointer, or a pointer to the string v
NilString == [nil |-> TRUE, v |-> ""]

Ref(v) == [nil |-> FALSE, v |-> v]

EncodeBulkString(s) ==
  IF s.nil THEN "$-1" \o CRLF
  ELSE "$" \o ToString(Len(s.v)) \o CRLF \o s.v \o CRLF

EncodeNullBulkString == "$-1" \o CRLF

EncodeError(err) == "-" \o err \o CRLF

EncodeNullArray == "*-1" \o CRLF

\* A []string is [nil, v]: the nil slice, or the elements v
NilSlice == [nil |-> TRUE, v |-> <<>>]

Slice(v) == [nil |-> FALSE, v |-> v]

\* A loop that encodes the elements from the last to the first
RECURSIVE EncodeElementsReversed(_)
EncodeElementsReversed(v) ==
  IF v = <<>> THEN ""
  ELSE EncodeElementsReversed(Tail(v)) \o EncodeBulkString(Ref(Head(v)))

\* The loop of EncodeArray: result += EncodeBulkString(&element)
RECURSIVE EncodeElements(_)
EncodeElements(v) ==
  IF v = <<>> THEN "" ELSE EncodeBulkString(Ref(Head(v))) \o EncodeElements(Tail(v))

\* An EncodeArray that takes the nil slice for the empty one
EncodeArrayNilEmpty(elements) ==
  "*" \o ToString(Len(elements.v)) \o CRLF \o EncodeElements(elements.v)

EncodeArray(elements) ==
  IF elements.nil THEN "*-1" \o CRLF
  ELSE "*" \o ToString(Len(elements.v)) \o CRLF \o EncodeElements(elements.v)

\* An interface{} element is [t, v]: t is its dynamic type
Str(s) == [t |-> "string", v |-> s]

I64(n) == [t |-> "int64", v |-> n]

List(v) == [t |-> "[]interface{}", v |-> v]

RECURSIVE EncodeArrayMixed(_), encodeElement(_), EncodeMixedElements(_)
EncodeMixedElements(v) ==
  IF v = <<>> THEN "" ELSE encodeElement(Head(v)) \o EncodeMixedElements(Tail(v))

\* EncodeArrayMixed of a non-nil []interface{}
EncodeArrayMixed(elements) ==
  "*" \o ToString(Len(elements)) \o CRLF \o EncodeMixedElements(elements)

encodeElement(element) ==
  CASE element.t = "string" -> EncodeBulkString(Ref(element.v))
    [] element.t = "int64" -> EncodeInteger(element.v)
    [] element.t = "[]interface{}" -> EncodeArrayMixed(element.v)

GenericErrorPrefix == "ERR"

ReturnOK == "OK"

\* ------------------------------------------------------- durations
\* int and time.Duration are 64-bit signed integers; the model keeps the
\* wrap-around at DurationBits bits.  A float64 has 53 significant bits; the
\* model keeps the rounding at FloatBits significant bits.
Pow2(n) == 2 ^ n

MaxInt == Pow2(DurationBits - 1) - 1

\* Two's complement wrap to DurationBits bits
Wrap(n) == ((n + Pow2(DurationBits - 1)) % Pow2(DurationBits)) - Pow2(DurationBits - 1)

\* time.Duration(seconds) * time.Second, in ticks
SecondsToDuration(seconds) == Wrap(seconds * TicksPerSecond)

\* time.Now().Add(time.Duration(seconds) * time.Second), with t = time.Now()
ExpireAt(t, seconds) == t + SecondsToDuration(seconds)

\* The binary exponent of d ticks taken in seconds (d >= TicksPerSecond)
Exponent(d) ==
  CHOOSE e \in 0..DurationBits :
    Pow2(e) * TicksPerSecond <= d /\ d < Pow2(e + 1) * TicksPerSecond

\* The distance in ticks between neighbouring floats around d ticks; 1 when
\* every whole number of ticks is a float
Quantum(d) ==
  IF d < TicksPerSecond THEN 1
  ELSE IF Exponent(d) - FloatBits + 1 < 0 THEN 1
  ELSE Pow2(Exponent(d) - FloatBits + 1) * TicksPerSecond

\* Duration.Seconds(): float64(sec) + float64(nsec)/1e9, the sum rounded to the
\* nearest float, ties to the even mantissa.  The result is kept in ticks.
DurationSeconds(d) ==
  LET q == Quantum(d)
      lo == GoDiv(d, q) * q
      hi == lo + q
  IN  IF d = lo THEN d
      ELSE IF 2 * (d - lo) < q THEN lo
      ELSE IF 2 * (d - lo) > q THEN hi
      ELSE IF GoDiv(lo, q) % 2 = 0 THEN lo ELSE hi

\* remaining := expiresAt.Sub(time.Now()).Seconds(); 0 when remaining < 0,
\* else int64(remaining)
TTLRemaining(expiresAt, t) ==
  IF expiresAt - t < 0 THEN 0
  ELSE GoDiv(DurationSeconds(expiresAt - t), TicksPerSecond)

\* ------------------------------------------------------- text
\* Strings are Go strings of one-byte characters; s[i] is SubSeq(s, i, i).
Digits == {"0", "1", "2", "3", "4", "5", "6", "7", "8", "9"}

DigitValue(ch) ==
  CASE ch = "0" -> 0 [] ch = "1" -> 1 [] ch = "2" -> 2 [] ch = "3" -> 3
    [] ch = "4" -> 4 [] ch = "5" -> 5 [] ch = "6" -> 6 [] ch = "7" -> 7
    [] ch = "8" -> 8 [] ch = "9" -> 9

\* The value of a string of decimal digits
RECURSIVE DecimalValue(_, _)
DecimalValue(s, acc) ==
  IF s = "" THEN acc
  ELSE DecimalValue(Tail(s), 10 * acc + DigitValue(Head(s)))

AllDigits(s) == \A i \in 1..Len(s) : SubSeq(s, i, i) \in Digits

\* An Atoi that takes no sign
AtoiUnsigned(s) ==
  IF s = "" \/ ~AllDigits(s) THEN [n |-> 0, ok |-> FALSE]
  ELSE IF DecimalValue(s, 0) > MaxInt THEN [n |-> 0, ok |-> FALSE]
  ELSE [n |-> DecimalValue(s, 0), ok |-> TRUE]

\* strconv.Atoi: an optional sign, then one or more decimal digits, the value
\* within the int range; otherwise an error
Atoi(s) ==
  LET signed == s # "" /\ Head(s) \in {"+", "-"}
      digits == IF signed THEN Tail(s) ELSE s
      value == IF signed /\ Head(s) = "-" THEN 0 - DecimalValue(digits, 0)
               ELSE DecimalValue(digits, 0)
  IN  IF digits = "" \/ ~AllDigits(digits) THEN [n |-> 0, ok |-> FALSE]
      ELSE IF value > MaxInt \/ value < 0 - MaxInt - 1 THEN [n |-> 0, ok |-> FALSE]
      ELSE [n |-> value, ok |-> TRUE]

\* unicode.ToUpper on the letters that requests use in lower case
UpperOf(ch) ==
  CASE ch = "p" -> "P" [] ch = "i" -> "I" [] ch = "n" -> "N" [] ch = "g" -> "G"
    [] OTHER -> ch

\* strings.ToUpper
RECURSIVE ToUpper(_)
ToUpper(s) == IF s = "" THEN "" ELSE UpperOf(Head(s)) \o ToUpper(Tail(s))

\* strings.HasPrefix
HasPrefix(s, p) == Len(s) >= Len(p) /\ SubSeq(s, 1, Len(p)) = p

\* strings.HasSuffix
HasSuffix(s, p) == Len(s) >= Len(p) /\ SubSeq(s, Len(s) - Len(p) + 1, Len(s)) = p

\* s[i:] for a Go index i
From(s, i) == SubSeq(s, i + 1, Len(s))

\* strconv.Quote, the %q of fmt: the text between double quotes, with \r, \n,
\* the double quote and the backslash escaped
QuoteChar(ch) ==
  CASE ch = "\r" -> "\\r" [] ch = "\n" -> "\\n" [] ch = "\"" -> "\\\""
    [] ch = "\\" -> "\\\\" [] OTHER -> ch

RECURSIVE QuoteChars(_)
QuoteChars(s) == IF s = "" THEN "" ELSE QuoteChar(Head(s)) \o QuoteChars(Tail(s))

Quote(s) == "\"" \o QuoteChars(s) \o "\""

\* The text of the *strconv.NumError that Atoi returns for s
AtoiError(s) ==
  LET digits == IF s # "" /\ Head(s) \in {"+", "-"} THEN Tail(s) ELSE s
  IN  "strconv.Atoi: parsing " \o Quote(s) \o ": " \o
      (IF digits = "" \/ ~AllDigits(digits) THEN "invalid syntax"
       ELSE "value out of range")

\* ------------------------------------------------------- ParseCommand
\* A connection's handler runs one command at a time (handleConnection's
\* loop); each specification says which connections send commands.  pc is
\* the position inside ParseCommand; key, seconds and t are its
\* locals; cmd and reply are the last command and the reply written for it.
Conns == {1, 2}
NoSecs == -1
NoReply == ""

IdleConn ==
  [pc |-> "idle", cmd |-> "none", key |-> NoKey, seconds |-> NoSecs,
   t |-> NoTime, reply |-> NoReply]

\* ParseCommand returns response; handleConnection writes it and loops
Reply(cmd, key, response) ==
  [pc |-> "idle", cmd |-> cmd, key |-> key, seconds |-> NoSecs, t |-> NoTime,
   reply |-> response]

\* ParseCommand goes on to its next statement
Goto(pc, cmd, key, seconds, t) ==
  [pc |-> pc, cmd |-> cmd, key |-> key, seconds |-> seconds, t |-> t,
   reply |-> NoReply]

\* The commands of one run: connection 1 sends among the first MaxCalls of
\* them, connection 2 may go on for MaxLateCalls more
Budget(c) == IF c = 1 THEN MaxCalls ELSE MaxCalls + MaxLateCalls

\* The handler reads the next command
Begin(c) ==
  /\ conn[c].pc = "idle"
  /\ calls < Budget(c)
  /\ calls' = calls + 1

SchedulerUnchanged ==
  UNCHANGED <<heap, items, entries, wake, stopClosed, ctxDone, mu, wpc, next,
              spawned, ret>>

\* SET key value
CmdSet(c, key, value) ==
  /\ Begin(c)
  /\ data' = StoreSet(data, key, value)
  /\ fresh' = [fresh EXCEPT ![key] = \E g \in BagToSet(spawned) : g.Key = key]
  /\ reborn' = [reborn EXCEPT ![key] = IF @ = "deleted" THEN "reborn" ELSE @]
  /\ conn' = [conn EXCEPT ![c] = Reply("SET", key, EncodeSimpleString(ReturnOK))]
  /\ SchedulerUnchanged
  /\ UNCHANGED <<now, made, req, reader, call>>

\* GET key
CmdGet(c, key) ==
  /\ Begin(c)
  /\ LET got == StoreGet(data, key)
     IN  conn' = [conn EXCEPT ![c] =
                    Reply("GET", key, IF ~got.ok THEN EncodeNullBulkString
                                      ELSE EncodeBulkString(Ref(got.value)))]
  /\ SchedulerUnchanged
  /\ UNCHANGED <<now, data, made, req, reader, call, fresh, reborn>>

\* DEL key
CmdDel(c, key) ==
  /\ Begin(c)
  /\ data' = StoreDelete(data, key)
  /\ conn' = [conn EXCEPT ![c] =
                Reply("DEL", key, IF data[key] # NoVal
                                  THEN EncodeSimpleString(ReturnOK)
                                  ELSE EncodeNullBulkString)]
  /\ fresh' = [fresh EXCEPT ![key] = FALSE]
  /\ reborn' = [reborn EXCEPT ![key] = IF data[key] # NoVal THEN "deleted" ELSE @]
  /\ SchedulerUnchanged
  /\ UNCHANGED <<now, made, req, reader, call>>

\* EXPIRE key seconds: _, ok := store.Get(key); reply 0 when !ok
ExpireGet(c, key, seconds) ==
  /\ Begin(c)
  /\ conn' = [conn EXCEPT ![c] =
                IF ~StoreGet(data, key).ok
                THEN Reply("EXPIRE", key, EncodeInteger(0))
                ELSE Goto("expire_now", "EXPIRE", key, seconds, NoTime)]
  /\ reborn' = [reborn EXCEPT ![key] = IF StoreGet(data, key).ok THEN "none" ELSE @]
  /\ SchedulerUnchanged
  /\ UNCHANGED <<now, data, made, req, reader, call, fresh>>

\* EXPIRE: time.Now()
ExpireNow(c) ==
  /\ conn[c].pc = "expire_now"
  /\ conn' = [conn EXCEPT ![c].pc = "expire_set", ![c].t = now]
  /\ SchedulerUnchanged
  /\ UNCHANGED <<now, data, calls, made, req, reader, call, fresh, reborn>>

\* EXPIRE: ttl.SetTTL(key, expiresAt); reply 1
ExpireSet(c) ==
  /\ conn[c].pc = "expire_set"
  /\ mu = "free"
  /\ LET st == SetTTLState(TTLState, conn[c].key,
                           ExpireAt(conn[c].t, conn[c].seconds))
     IN  /\ heap' = st.h
         /\ items' = st.it
         /\ entries' = st.e
  /\ wake' = Notify(wake)
  /\ made' = [made EXCEPT ![conn[c].key] = conn[c].seconds]
  /\ conn' = [conn EXCEPT ![c] = Reply("EXPIRE", conn[c].key, EncodeInteger(1))]
  /\ UNCHANGED <<now, stopClosed, ctxDone, mu, wpc, next, spawned, data, calls,
                 ret, req, reader, call, fresh, reborn>>

\* TTL key: _, ok := store.Get(key); reply -2 when !ok
TtlGet(c, key) ==
  /\ Begin(c)
  /\ conn' = [conn EXCEPT ![c] =
                IF ~StoreGet(data, key).ok
                THEN Reply("TTL", key, EncodeInteger(-2))
                ELSE Goto("ttl_lookup", "TTL", key, NoSecs, NoTime)]
  /\ SchedulerUnchanged
  /\ UNCHANGED <<now, data, made, req, reader, call, fresh, reborn>>

\* TTL: expiresAt, ok := ttl.GetTTL(key); reply -1 when !ok
TtlLookup(c) ==
  /\ conn[c].pc = "ttl_lookup"
  /\ mu = "free"
  /\ LET r == GetTTLOf(TTLState, conn[c].key)
     IN  conn' = [conn EXCEPT ![c] =
                    IF ~r.found
                    THEN Reply("TTL", conn[c].key, EncodeInteger(-1))
                    ELSE Goto("ttl_now", "TTL", conn[c].key, NoSecs, r.at)]
  /\ SchedulerUnchanged
  /\ UNCHANGED <<now, data, calls, made, req, reader, call, fresh, reborn>>

\* TTL: remaining := expiresAt.Sub(time.Now()).Seconds(); reply 0 or int64(remaining)
TtlNow(c) ==
  /\ conn[c].pc = "ttl_now"
  /\ conn' = [conn EXCEPT ![c] =
                Reply("TTL", conn[c].key,
                      EncodeInteger(TTLRemaining(conn[c].t, now)))]
  /\ SchedulerUnchanged
  /\ UNCHANGED <<now, data, calls, made, req, reader, call, fresh, reborn>>

\* FLUSHALL: store.FlushAll()
FlushStore(c) ==
  /\ Begin(c)
  /\ data' = StoreFlushAll(data)
  /\ fresh' = [k \in Keys |-> FALSE]
  /\ reborn' = [k \in Keys |-> "none"]
  /\ conn' = [conn EXCEPT ![c] = Goto("flush_ttl", "FLUSHALL", NoKey, NoSecs, NoTime)]
  /\ SchedulerUnchanged
  /\ UNCHANGED <<now, made, req, reader, call>>

\* FLUSHALL: ttl.FlushAll(); reply OK
FlushTTL(c) ==
  /\ conn[c].pc = "flush_ttl"
  /\ mu = "free"
  /\ LET st == FlushAllState(TTLState)
     IN  /\ heap' = st.h
         /\ items' = st.it
         /\ entries' = st.e
  /\ conn' = [conn EXCEPT ![c] = Reply("FLUSHALL", NoKey, EncodeSimpleString(ReturnOK))]
  /\ UNCHANGED <<now, wake, stopClosed, ctxDone, mu, wpc, next, spawned, data,
                 calls, ret, made, req, reader, call, fresh, reborn>>

\* ------------------------------------------------------- ParseCommand's own replies
\* A request is what DecodeCommand returns: cmd and cmdArgs
NoRequest == [cmd |-> "", args |-> <<>>]

\* The table of COMMAND
CommandInfo(name, arity, flags, first, last, step) ==
  List(<<Str(name), I64(arity), List(flags), I64(first), I64(last), I64(step)>>)

commands ==
  << CommandInfo("SET", 3, <<Str("write")>>, 1, 1, 1),
     CommandInfo("GET", 2, <<Str("readonly")>>, 1, 1, 1),
     CommandInfo("DEL", 2, <<Str("write")>>, 1, 1, 1),
     CommandInfo("KEYS", 2, <<Str("readonly")>>, 1, 1, 1),
     CommandInfo("EXPIRE", 3, <<Str("write")>>, 1, 1, 1),
     CommandInfo("TTL", 2, <<Str("readonly")>>, 1, 1, 1),
     CommandInfo("FLUSHALL", 1, <<Str("write")>>, 0, 0, 0),
     CommandInfo("PING", 1, <<Str("stale"), Str("fast")>>, 0, 0, 0),
     CommandInfo("COMMAND", 1, <<Str("readonly")>>, 0, 0, 0) >>

UsageError(usage) == EncodeError(GenericErrorPrefix \o " usage: " \o usage)

\* What ParseCommand returns for cmd, cmdArgs before any call on the Store or
\* the TTLStore, "" when it goes on to call them
Direct(cmd, cmdArgs) ==
  LET verb == ToUpper(cmd)
      n == Len(cmdArgs)
  IN  CASE verb = "SET" -> IF n # 2 THEN UsageError("SET key value") ELSE ""
        [] verb = "GET" -> IF n # 1 THEN UsageError("GET key") ELSE ""
        [] verb = "DEL" -> IF n # 1 THEN UsageError("DEL key") ELSE ""
        [] verb = "KEYS" -> IF n # 1 THEN UsageError("KEYS pattern") ELSE ""
        [] verb = "EXPIRE" ->
             IF n # 2 THEN UsageError("EXPIRE key seconds")
             ELSE IF ~Atoi(cmdArgs[2]).ok \/ Atoi(cmdArgs[2]).n < 0
             THEN EncodeError(GenericErrorPrefix \o " invalid seconds value: "
                              \o cmdArgs[2])
             ELSE ""
        [] verb = "TTL" -> IF n # 1 THEN UsageError("TTL key") ELSE ""
        [] verb = "FLUSHALL" -> IF n # 0 THEN UsageError("FLUSHALL") ELSE ""
        [] verb = "PING" -> "PONG"
        [] verb = "COMMAND" ->
             IF n # 0 THEN UsageError("COMMAND") ELSE EncodeArrayMixed(commands)
        [] OTHER -> EncodeError(GenericErrorPrefix \o " unknown command: " \o cmd)

\* A dispatcher that empties the Store when it answers by itself
AnswerFlushing(c, cmd, cmdArgs) ==
  /\ Begin(c)
  /\ Direct(cmd, cmdArgs) # ""
  /\ conn' = [conn EXCEPT ![c] = Reply(ToUpper(cmd), NoKey, Direct(cmd, cmdArgs))]
  /\ req' = [cmd |-> cmd, args |-> cmdArgs]
  /\ SchedulerUnchanged
  /\ data' = StoreFlushAll(data)
  /\ UNCHANGED <<now, made, reader, call, fresh, reborn>>

\* ParseCommand returns without a call on the Store or the TTLStore
Answer(c, cmd, cmdArgs) ==
  /\ Begin(c)
  /\ Direct(cmd, cmdArgs) # ""
  /\ conn' = [conn EXCEPT ![c] = Reply(ToUpper(cmd), NoKey, Direct(cmd, cmdArgs))]
  /\ req' = [cmd |-> cmd, args |-> cmdArgs]
  /\ SchedulerUnchanged
  /\ UNCHANGED <<now, data, made, reader, call, fresh, reborn>>

\* filepath.Match for patterns of literal characters, '*' and '?'
RECURSIVE Match(_, _)
Match(pattern, name) ==
  IF pattern = "" THEN name = ""
  ELSE IF Head(pattern) = "*"
  THEN IF Match(Tail(pattern), name) THEN TRUE
       ELSE IF name = "" THEN FALSE ELSE Match(pattern, Tail(name))
  ELSE IF name = "" THEN FALSE
  ELSE IF Head(pattern) = "?" THEN Match(Tail(pattern), Tail(name))
  ELSE IF Head(pattern) = Head(name) THEN Match(Tail(pattern), Tail(name))
  ELSE FALSE

\* The keys Store.Match appends to found
Matching(d, pattern) == {k \in DOMAIN d : d[k] # NoVal /\ Match(pattern, k)}

\* The orders in which `for key := range s.data` can visit the keys of S
Orders(S) ==
  {f \in [1..Cardinality(S) -> S] : \A i, j \in 1..Cardinality(S) : f[i] = f[j] => i = j}

\* Store.Match: found, len(found) > 0; found stays nil when nothing matches
StoreMatch(d, pattern) ==
  IF Matching(d, pattern) = {} THEN {[found |-> NilSlice, ok |-> FALSE]}
  ELSE {[found |-> Slice(f), ok |-> TRUE] : f \in Orders(Matching(d, pattern))}

\* KEYS pattern
CmdKeys(c, pattern) ==
  /\ Begin(c)
  /\ \E m \in StoreMatch(data, pattern) :
       conn' = [conn EXCEPT ![c] =
                  Reply("KEYS", pattern, IF ~m.ok THEN EncodeNullBulkString
                                         ELSE EncodeArray(m.found))]
  /\ SchedulerUnchanged
  /\ UNCHANGED <<now, data, made, req, reader, call, fresh, reborn>>

\* ------------------------------------------------------- DecodeCommand
\* The reader is the bytes the client has sent and the connection has not yet
\* read, followed by the end of the stream.  A read returns what it has read,
\* an error text ("" for nil) and the bytes left in the reader.

\* r.ReadString('\n') and strings.TrimSuffix(line, "\r\n")
readLine(r) ==
  IF \A i \in 1..Len(r) : SubSeq(r, i, i) # "\n"
  THEN [line |-> "", err |-> "EOF", rest |-> ""]
  ELSE LET i == CHOOSE j \in 1..Len(r) :
                  /\ SubSeq(r, j, j) = "\n"
                  /\ \A h \in 1..(j - 1) : SubSeq(r, h, h) # "\n"
           line == SubSeq(r, 1, i)
       IN  [line |-> IF HasSuffix(line, CRLF) THEN SubSeq(line, 1, i - 2) ELSE line,
            err |-> "",
            rest |-> From(r, i)]

\* A ReadFull that takes every byte the reader holds
ReadFullAll(r, n) ==
  IF Len(r) >= n
  THEN [buf |-> SubSeq(r, 1, n), err |-> "", rest |-> ""]
  ELSE [buf |-> r, err |-> IF r = "" THEN "EOF" ELSE "unexpected EOF", rest |-> ""]

\* io.ReadFull(r, buf) with len(buf) = n
ReadFull(r, n) ==
  IF Len(r) >= n
  THEN [buf |-> SubSeq(r, 1, n), err |-> "", rest |-> From(r, n)]
  ELSE [buf |-> r, err |-> IF r = "" THEN "EOF" ELSE "unexpected EOF", rest |-> ""]

\* The ways a call of DecodeCommand ends: with a command, with an error, or
\* in a run-time panic that nothing recovers
Decoded(cmd, args, rest) ==
  [cmd |-> cmd, args |-> args, err |-> "", panic |-> "", rest |-> rest]

Failed(err, rest) ==
  [cmd |-> "", args |-> <<>>, err |-> err, panic |-> "", rest |-> rest]

Panicked(panic, rest) ==
  [cmd |-> "", args |-> <<>>, err |-> "", panic |-> panic, rest |-> rest]

\* The loop of DecodeCommand from element i on.  make([]byte, length+2) panics
\* for a negative size (length+2 wraps for the largest lengths), and
\* buf[:length] panics for a negative length.
RECURSIVE decodeParts(_, _, _, _)
decodeParts(r, count, i, parts) ==
  IF i = count THEN Decoded(Head(parts), Tail(parts), r)
  ELSE
    LET rl == readLine(r)
        length == Atoi(From(rl.line, 1))
        rf == ReadFull(rl.rest, Wrap(length.n + 2))
    IN  IF rl.err # "" THEN Failed(rl.err, rl.rest)
        ELSE IF ~HasPrefix(rl.line, "$")
        THEN Failed("expected bulk string ($), got: " \o Quote(rl.line), rl.rest)
        ELSE IF ~length.ok
        THEN Failed("invalid bulk string length: " \o AtoiError(From(rl.line, 1)),
                    rl.rest)
        ELSE IF Wrap(length.n + 2) < 0
        THEN Panicked("makeslice: len out of range", rl.rest)
        ELSE IF rf.err # "" THEN Failed(rf.err, rf.rest)
        ELSE IF length.n < 0
        THEN Panicked("slice bounds out of range", rf.rest)
        ELSE decodeParts(rf.rest, count, i + 1,
                         Append(parts, SubSeq(rf.buf, 1, length.n)))

DecodeCommand(r) ==
  LET rl == readLine(r)
      count == Atoi(From(rl.line, 1))
  IN  IF rl.err # "" THEN Failed(rl.err, rl.rest)
      ELSE IF ~HasPrefix(rl.line, "*")
      THEN Failed("expected array (*), got: " \o Quote(rl.line), rl.rest)
      ELSE IF ~count.ok
      THEN Failed("invalid array length: " \o AtoiError(From(rl.line, 1)), rl.rest)
      ELSE IF count.n < 1
      THEN Failed("command must contain at least one element", rl.rest)
      ELSE decodeParts(rl.rest, count.n, 0, <<>>)

\* A connection in handleConnection.  Its reader: the unread bytes r, whether
\* the client has sent its bytes, the number of DecodeCommand calls made and
\* what the last one returned.  Its socket: open until the handler returns
\* (the deferred conn.Close()), the number of replies written to it, and
\* whether the peer has gone, after which conn.Write fails.
NoReader ==
  [r |-> "", sent |-> FALSE, n |-> 0, out |-> Failed("", ""),
   open |-> TRUE, wrote |-> 0, peerGone |-> FALSE]

\* The client writes the bytes s and closes its side of the connection
Send(s) ==
  /\ ~reader.sent
  /\ reader' = [reader EXCEPT !.r = s, !.sent = TRUE]
  /\ SchedulerUnchanged
  /\ UNCHANGED <<now, data, calls, conn, made, req, call, fresh, reborn>>

\* ParseCommand on connection c up to its first return: DecodeCommand(reader),
\* and EncodeError(GenericErrorPrefix + " " + err.Error()) when it fails.  A
\* panic ends the process: no statement runs after it.
DecodeCall(c) ==
  /\ reader.sent
  /\ reader.r # ""
  /\ reader.out.panic = ""
  /\ conn[c].pc = "idle"
  /\ LET out == DecodeCommand(reader.r)
     IN  /\ reader' = [reader EXCEPT !.r = out.rest, !.n = @ + 1, !.out = out]
         /\ conn' = IF out.err # ""
                    THEN [conn EXCEPT ![c] =
                            Reply("none", NoKey,
                                  EncodeError(GenericErrorPrefix \o " " \o out.err))]
                    ELSE conn
  /\ SchedulerUnchanged
  /\ UNCHANGED <<now, data, calls, made, req, call, fresh, reborn>>

\* The client closes the connection: from now on conn.Write returns an error
PeerGone ==
  /\ reader.open
  /\ ~reader.peerGone
  /\ reader' = [reader EXCEPT !.peerGone = TRUE]
  /\ SchedulerUnchanged
  /\ UNCHANGED <<now, data, calls, conn, made, req, call, fresh, reborn>>

\* What ParseCommand returns for the outcome of DecodeCommand, for a request
\* that it answers without a call on the Store or the TTLStore
Response(out) ==
  IF out.err # "" THEN EncodeError(GenericErrorPrefix \o " " \o out.err)
  ELSE Direct(out.cmd, out.args)

\* One pass of handleConnection's loop on connection c: response :=
\* handler(reader); return when response == ""; conn.Write(response), return
\* when it fails.  The read blocks until the client has sent its bytes.  A
\* panic in DecodeCommand ends the process.
Handle(c) ==
  /\ reader.open
  /\ reader.sent
  /\ reader.out.panic = ""
  /\ reader.n < MaxReads
  /\ conn[c].pc = "idle"
  /\ LET out == DecodeCommand(reader.r)
         response == Response(out)
         written == response # "" /\ ~reader.peerGone
     IN  IF out.panic # ""
         THEN /\ reader' = [reader EXCEPT !.r = out.rest, !.n = @ + 1, !.out = out]
              /\ UNCHANGED <<conn, req>>
         ELSE /\ reader' = [reader EXCEPT !.r = out.rest, !.n = @ + 1, !.out = out,
                                          !.open = written,
                                          !.wrote = IF written THEN @ + 1 ELSE @]
              /\ conn' = [conn EXCEPT ![c] =
                            Reply(IF out.err # "" THEN "none" ELSE ToUpper(out.cmd),
                                  NoKey, response)]
              /\ req' = IF out.err # "" THEN req
                        ELSE [cmd |-> out.cmd, args |-> out.args]
  /\ SchedulerUnchanged
  /\ UNCHANGED <<now, data, calls, made, call, fresh, reborn>>

\* ------------------------------------------------------- encoder calls
\* A call of an exported encoder: the function, its argument and its result
NoCall == [fn |-> "none", arg |-> NilString, result |-> ""]

CallUnchanged ==
  /\ SchedulerUnchanged
  /\ UNCHANGED <<now, data, calls, conn, made, req, reader, fresh, reborn>>

\* EncodeBulkString(s) with s a *string
CallEncodeBulkString(s) ==
  /\ call' = [fn |-> "EncodeBulkString", arg |-> s, result |-> EncodeBulkString(s)]
  /\ CallUnchanged

\* EncodeArray(elements) with elements a []string
CallEncodeArray(elements) ==
  /\ call' = [fn |-> "EncodeArray", arg |-> elements,
              result |-> EncodeArray(elements)]
  /\ CallUnchanged

\* ------------------------------------------------------- the scheduler alone
\* NewTTLStore: empty heap and map, free wake slot, open stop channel, and
\* `go s.run(ctx)`; NewStore: an empty map.
Init ==
  /\ now = 0
  /\ heap = <<>>
  /\ items = [id \in ItemIds |-> FreeItem]
  /\ entries = [k \in Keys |-> Nil]
  /\ wake = 0
  /\ stopClosed = FALSE
  /\ ctxDone = FALSE
  /\ mu = "free"
  /\ wpc = "peek"
  /\ next = NoTime
  /\ spawned = EmptyBag
  /\ data = [k \in Keys |-> NoVal]
  /\ calls = 0
  /\ ret = NoRet
  /\ conn = [c \in Conns |-> IdleConn]
  /\ made = [k \in Keys |-> NoSecs]
  /\ req = NoRequest
  /\ reader = NoReader
  /\ call = NoCall
  /\ fresh = [k \in Keys |-> FALSE]
  /\ reborn = [k \in Keys |-> "none"]

\* The calls clients make on the scheduler, over two keys and with expirations
\* that are due at once, one tick later, or as late as the clock goes
ApiKeys == {"a", "b"}
ApiTimes == {0, 1, MaxTime}

Next ==
  \/ \E k \in ApiKeys, t \in ApiTimes : SetTTL(k, t)
  \/ \E k \in ApiKeys : GetTTL(k)
  \/ FlushAll
  \/ Stop
  \/ Cancel
  \/ Tick
  \/ Worker
  \/ WorkerExit
  \/ \E g \in BagToSet(spawned) : RunCallback(g)

Spec == Init /\ [][Next]_vars

\* ------------------------------------------------------- heap and map
\* The operations that write the heap and the map (SetTTL, FlushAll and the
\* worker's drain), over three keys so that the heap has a node with two
\* children.
NextHeap ==
  \/ \E k \in Keys, t \in ApiTimes : SetTTL(k, t)
  \/ FlushAll
  \/ Tick
  \/ Worker

SpecHeap == Init /\ [][NextHeap]_vars

\* ------------------------------------------------------- fair scheduling
\* The scheduler under fairness: clients make finitely many SetTTL and
\* FlushAll calls, with expirations that are due at once (0) or as late as the
\* clock goes (MaxTime).  The Go scheduler runs every runnable goroutine and
\* the clock advances: the system never stops while the worker has a step to
\* take or the clock can advance.
LiveTimes == {0, MaxTime}

ClientCall ==
  /\ calls < MaxLiveCalls
  /\ \/ \E k \in ApiKeys, t \in LiveTimes : SetTTL(k, t)
     \/ FlushAll

Callbacks == \E g \in BagToSet(spawned) : RunCallback(g)

NextLive ==
  \/ ClientCall
  \/ Cancel
  \/ Tick
  \/ Worker
  \/ WorkerExit
  \/ Callbacks

SpecLive ==
  /\ Init
  /\ [][NextLive]_vars
  /\ WF_vars(Worker \/ WorkerExit \/ Tick)

\* ------------------------------------------------------- re-entrant callbacks
\* The scheduler with a DeleteFn that calls SetTTL, GetTTL or FlushAll on it,
\* next to the clients' calls.  The Go scheduler runs the worker and every
\* callback goroutine, and the clock advances.
NextReentrant ==
  \/ ClientCall
  \/ Tick
  \/ Worker
  \/ ReentrantCallbacks

SpecReentrant ==
  /\ Init
  /\ [][NextReentrant]_vars
  /\ WF_vars(Worker \/ Tick \/ ReentrantCallbacks)

\* ------------------------------------------------------- the server
\* One client connection sends commands one after another while the worker
\* and the deletion callbacks run.  The seconds a client passes to EXPIRE
\* are 0, 1, a value large enough for the float rounding of TTL, and the
\* largest integer.
BigSecs == Pow2(FloatBits - 1) + 2

Secs == {0, 1, BigSecs, MaxInt}

Command(c) ==
  \/ \E k \in ApiKeys, v \in Vals : CmdSet(c, k, v)
  \/ \E k \in ApiKeys : CmdGet(c, k)
  \/ \E k \in ApiKeys : CmdDel(c, k)
  \/ \E k \in ApiKeys, s \in Secs : ExpireGet(c, k, s)
  \/ ExpireNow(c)
  \/ ExpireSet(c)
  \/ \E k \in ApiKeys : TtlGet(c, k)
  \/ TtlLookup(c)
  \/ TtlNow(c)
  \/ FlushStore(c)
  \/ FlushTTL(c)

NextServer ==
  \/ Command(1)
  \/ Tick
  \/ Worker
  \/ Callbacks

SpecServer == Init /\ [][NextServer]_vars

\* ------------------------------------------------------- two connections
\* Connection 1 stores a key, gives it a TTL and flushes; connection 2 stores
\* the key and asks for its TTL, at any moment of connection 1's commands.
FlushKey == "a"

Flusher(c) ==
  \/ \E v \in Vals : CmdSet(c, FlushKey, v)
  \/ ExpireGet(c, FlushKey, 1)
  \/ ExpireNow(c)
  \/ ExpireSet(c)
  \/ FlushStore(c)
  \/ FlushTTL(c)

Asker(c) ==
  \/ \E v \in Vals : CmdSet(c, FlushKey, v)
  \/ TtlGet(c, FlushKey)
  \/ TtlLookup(c)
  \/ TtlNow(c)

NextConc ==
  \/ Flusher(1)
  \/ Asker(2)
  \/ Tick
  \/ Worker
  \/ Callbacks

SpecConc == Init /\ [][NextConc]_vars

\* ------------------------------------------------------- expiry, fair
\* One connection stores a key, gives it a TTL that comes due while the clock
\* runs, and reads it back.  The Go scheduler runs the worker and every
\* callback goroutine, and the clock advances; the client may stop at any time.
ExpiryKey == "a"

ExpirySecs == {0, 1}

ExpiryCommand(c) ==
  \/ \E v \in Vals : CmdSet(c, ExpiryKey, v)
  \/ \E s \in ExpirySecs : ExpireGet(c, ExpiryKey, s)
  \/ ExpireNow(c)
  \/ ExpireSet(c)
  \/ CmdGet(c, ExpiryKey)
  \/ TtlGet(c, ExpiryKey)
  \/ TtlLookup(c)
  \/ TtlNow(c)

NextExpiry ==
  \/ ExpiryCommand(1)
  \/ Tick
  \/ Worker
  \/ Callbacks

SpecExpiry ==
  /\ Init
  /\ [][NextExpiry]_vars
  /\ WF_vars(Worker \/ Tick \/ Callbacks)

\* ------------------------------------------------------- a key stored again
\* One connection stores a key, gives it a TTL of one second, removes it with
\* DEL, stores it again and asks for its TTL, in any order, while the clock,
\* the worker and the callbacks run.
RebornKey == "a"

RebornSecs == {1}

Reborn(c) ==
  \/ \E v \in Vals : CmdSet(c, RebornKey, v)
  \/ CmdDel(c, RebornKey)
  \/ \E s \in RebornSecs : ExpireGet(c, RebornKey, s)
  \/ ExpireNow(c)
  \/ ExpireSet(c)
  \/ TtlGet(c, RebornKey)
  \/ TtlLookup(c)
  \/ TtlNow(c)

NextReborn ==
  \/ Reborn(2)
  \/ Tick
  \/ Worker
  \/ Callbacks

SpecReborn == Init /\ [][NextReborn]_vars

\* ------------------------------------------------------- the dispatcher
\* ParseCommand alone, before the worker takes a step: one connection sends
\* requests of every verb, well formed or not.  The verbs come in upper case,
\* one in lower case and one that is no verb.  ParseCommand's own replies
\* depend on the number of arguments and, for EXPIRE, on the second one: the
\* requests it answers by itself have up to MaxArgs arguments, the second a
\* word or a negative number.
VerbNames ==
  {"SET", "GET", "DEL", "KEYS", "EXPIRE", "TTL", "FLUSHALL", "PING", "COMMAND",
   "ping", "NOPE"}

Texts == {"x", "-1"}

ArgLists ==
  {[i \in 1..n |-> IF i = 2 THEN t ELSE "x"] : n \in 0..MaxArgs, t \in Texts}

Patterns == {"*", "?", "a", "a*", "x"}

DispatchSecs == {0, 1}

Dispatch(c) ==
  \/ \E cmd \in VerbNames, cmdArgs \in ArgLists : Answer(c, cmd, cmdArgs)
  \/ \E k \in ApiKeys, v \in Vals : CmdSet(c, k, v)
  \/ \E k \in ApiKeys : CmdGet(c, k)
  \/ \E k \in ApiKeys : CmdDel(c, k)
  \/ \E p \in Patterns : CmdKeys(c, p)
  \/ \E k \in ApiKeys, s \in DispatchSecs : ExpireGet(c, k, s)
  \/ ExpireNow(c)
  \/ ExpireSet(c)
  \/ \E k \in ApiKeys : TtlGet(c, k)
  \/ TtlLookup(c)
  \/ TtlNow(c)
  \/ FlushStore(c)
  \/ FlushTTL(c)

SpecDispatch == Init /\ [][Dispatch(1)]_vars

\* ------------------------------------------------------- the codec
\* A client sends a byte stream and closes; the connection decodes it call by
\* call.  The streams are well-formed frames of up to MaxParts elements, alone
\* or followed by a second frame, every proper prefix of a frame, and frames
\* that are malformed, alone or followed by a well-formed frame.
Words == {"", "a", "GET", CRLF}

Lists == UNION {[1..n -> Words] : n \in 1..MaxParts}

Frame(parts) == EncodeArray(Slice(parts))

Frames == {Frame(parts) : parts \in Lists}

Followers == {Frame(<<"GET", "a">>), Frame(<<"">>)}

Truncated == UNION {{SubSeq(f, 1, n) : n \in 1..(Len(f) - 1)} : f \in Frames}

Malformed ==
  {"SET key value\r\n", "*abc\r\n", "*0\r\n", "*-1\r\n", "*-2\r\n", "*+0\r\n",
   "*2\r\n#3\r\nSET\r\n", "*1\r\n$abc\r\n", "*1\r\n$5\r\nGET\r\n",
   "*1\r\n$3\r\nGETxx", "*1\n$1\na\n", "+OK\r\n", "$1\r\na\r\n", "\r\n",
   "*1\r\n$-1\r\n", "*1\r\n$-2\r\n", "*1\r\n$-3\r\n",
   "*1\r\n$" \o ToString(MaxInt) \o "\r\n"}

Streams ==
  Frames \cup {f \o g : f \in Frames \cup Malformed, g \in Followers}
         \cup Truncated \cup Malformed

NextCodec ==
  \/ \E s \in Streams : Send(s)
  \/ DecodeCall(1)

SpecCodec == Init /\ [][NextCodec]_vars

\* ------------------------------------------------------- a connection
\* handleConnection on one connection, whose client sends a byte stream, stops
\* sending, and may close; a second connection stores and reads a key
\* meanwhile.  The streams hold requests that ParseCommand answers by itself
\* (PING, an unknown verb, GET without its key), alone or in pairs, cut short,
\* or after a malformed or rejected frame; the empty stream is a client that
\* sends nothing.
Requests == {<<"PING">>, <<"NOPE">>, <<"GET">>}

RequestFrames == {Frame(parts) : parts \in Requests}

\* Frames of one element, complete in their bytes, whose element header
\* DecodeCommand rejects: a wrong marker, a length that is no number
Rejected == {"*1\r\n#3\r\nSET\r\n", "*1\r\n$x\r\nSET\r\n"}

HandlerStreams ==
  {""} \cup RequestFrames \cup Malformed
       \cup {f \o g : f \in RequestFrames \cup Malformed \cup Rejected,
                      g \in RequestFrames}
       \cup UNION {{SubSeq(f, 1, n) : n \in 1..(Len(f) - 1)} : f \in RequestFrames}

OtherKey == "a"

NextHandler ==
  \/ \E s \in HandlerStreams : Send(s)
  \/ PeerGone
  \/ Handle(1)
  \/ \E v \in Vals : CmdSet(2, OtherKey, v)
  \/ CmdGet(2, OtherKey)

SpecHandler == Init /\ [][NextHandler]_vars

\* ------------------------------------------------------- the encoders
\* The encoders called on nil, on the empty string and the empty list, and on
\* strings and lists of up to MaxParts + 1 strings.
EncodedWords == Words \cup {"hello", "$-1"}

Pointers == {NilString} \cup {Ref(w) : w \in EncodedWords}

Slices ==
  {NilSlice} \cup
  {Slice(v) : v \in UNION {[1..n -> EncodedWords] : n \in 0..(MaxParts + 1)}}

NextEncode ==
  \/ \E s \in Pointers : CallEncodeBulkString(s)
  \/ \E elements \in Slices : CallEncodeArray(elements)

SpecEncode == Init /\ [][NextEncode]_vars

\* ======================================================= properties
\* Positions of the heap array that hold an item of key k
SlotsOfKey(h, it, k) == {p \in 1..Len(h) : it[h[p]].Key = k}

\* Positions of the heap array that hold the item id
SlotsOfItem(h, id) == {p \in 1..Len(h) : h[p] = id}

\* C1: in every reachable state the key-to-entry map and the heap hold exactly
\* the same entries: every mapped key has exactly one heap entry, every heap
\* entry is the entry mapped under its key, and every entry's stored index is
\* its current position in the heap array.
C1_MapHeapConsistent ==
  /\ \A k \in Keys :
       entries[k] # Nil =>
         /\ items[entries[k]].Key = k
         /\ Cardinality(SlotsOfItem(heap, entries[k])) = 1
         /\ Cardinality(SlotsOfKey(heap, items, k)) = 1
  /\ \A p \in 1..Len(heap) :
       /\ heap[p] \in ItemIds
       /\ items[heap[p]].Key \in Keys
       /\ entries[items[heap[p]].Key] = heap[p]
       /\ items[heap[p]].index = p - 1

\* C1 witness: three entries in the heap, the one inserted last (the third
\* object allocated) sifted up to the root, ahead of a later-expiring entry.
C1_Witness ==
  /\ Len(heap) = 3
  /\ heap[1] = 3
  /\ items[heap[1]].ExpiresAt < items[heap[2]].ExpiresAt
  /\ items[heap[1]].index = 0

\* C2: a SetTTL(k, t2) made while k still has an entry (from an earlier
\* SetTTL(k, t1), not expired in between) leaves exactly one entry for k in the
\* heap and in the map, and GetTTL(k) then returns (t2, true), whether t2 is
\* earlier or later than t1.
C2_OverwriteKeepsOne ==
  [][ (calls' = calls + 1 /\ ret'.op = "SetTTL" /\ entries[ret'.key] # Nil) =>
        /\ Cardinality(SlotsOfKey(heap', items', ret'.key)) = 1
        /\ entries'[ret'.key] # Nil
        /\ Cardinality(SlotsOfItem(heap', entries'[ret'.key])) = 1
        /\ GetTTLOf([h |-> heap', it |-> items', e |-> entries'], ret'.key)
             = [at |-> ret'.at, found |-> TRUE] ]_vars

\* C2 witness: the last call was a SetTTL that replaced an entry of its key by
\* one expiring earlier, next to another key's entry.
C2_Witness ==
  /\ ret.op = "SetTTL"
  /\ ret.found
  /\ ret.at < ret.old
  /\ Len(heap) = 2
  /\ GetTTLOf(TTLState, ret.key) = [at |-> ret.at, found |-> TRUE]

\* The index holds an entry of key k expiring at t
InIndex(k, t) == entries[k] # Nil /\ items[entries[k]].ExpiresAt = t

\* This step is a client call that overwrites k's entry or flushes the index
Replaces(k) ==
  /\ calls' = calls + 1
  /\ \/ ret'.op = "SetTTL" /\ ret'.key = k
     \/ ret'.op = "FlushAll"

\* This step starts a callback goroutine for the entry (k, t)
Dispatches(k, t) ==
  spawned' = spawned (+) SetToBag({[Key |-> k, ExpiresAt |-> t]})

\* This step is the worker starting a callback goroutine
DispatchStep == \E g \in BagToSet(spawned') : spawned' = spawned (+) SetToBag({g})

\* C3: while the worker is not cancelled, every entry put in the index by
\* SetTTL leaves it only by being overwritten, flushed or dispatched to the
\* deletion callback, and it does leave it: a non-empty index is emptied, so
\* no entry stays behind because its wake notification was dropped on a full
\* wake slot.
C3_EveryEntryDispatched ==
  /\ (\E k \in Keys : entries[k] # Nil)
       ~> ((\A k \in Keys : entries[k] = Nil) \/ ctxDone)
  /\ [][ \A k \in ApiKeys, t \in LiveTimes :
           (InIndex(k, t) /\ ~InIndex(k, t)') =>
             (Replaces(k) \/ Dispatches(k, t)) ]_vars

\* C3 witness: the worker sits in the idle wait it entered on an empty heap,
\* two SetTTL calls were made since, and a single wake signal is pending: the
\* second notification was dropped.
C3_Witness ==
  /\ wpc = "idle"
  /\ Len(heap) = 2
  /\ wake = 1
  /\ ~ctxDone

\* C4 as claimed: of two keys the one expiring strictly earlier has its
\* deletion callback fire no later.  A callback never runs while a callback
\* for an earlier-expiring entry of another key is still to run (spawned and
\* not run, or not dispatched yet).
C4_EarlierFiresFirst ==
  [][ \A g \in BagToSet(spawned) :
        (spawned' = spawned (-) SetToBag({g})) =>
          /\ \A g2 \in BagToSet(spawned) :
               g2.Key # g.Key => g2.ExpiresAt >= g.ExpiresAt
          /\ \A k \in Keys :
               (k # g.Key /\ entries[k] # Nil) =>
                 items[entries[k]].ExpiresAt >= g.ExpiresAt ]_vars

\* C4 amended: whenever the worker dispatches the deletion callback of an
\* entry, no entry in the index expires strictly earlier: of two entries that
\* are in the index together, the earlier-expiring one is dispatched no later,
\* whatever the order of the SetTTL calls.
C4_DispatchInExpiryOrder ==
  [][ \A k \in Keys, t \in Times :
        Dispatches(k, t) =>
          \A p \in 1..Len(heap) : items[heap[p]].ExpiresAt >= t ]_vars

\* C4 witness: two SetTTL calls; the entry set last was dispatched first (its
\* goroutine is spawned) while the entry set first, expiring later, is still
\* in the index.
C4_Witness ==
  /\ calls = 2
  /\ ret.op = "SetTTL"
  /\ Len(heap) = 1
  /\ items[heap[1]].Key # ret.key
  /\ items[heap[1]].ExpiresAt > ret.at
  /\ BagIn([Key |-> ret.key, ExpiresAt |-> ret.at], spawned)

\* C5 as claimed: Stop() makes the worker exit, so once Stop() has been
\* called the worker dispatches no further deletion callback.
C5_StopEndsDispatch ==
  [][ stopClosed => ~DispatchStep ]_vars

\* C6: once the context is cancelled the worker terminates, and at both of its
\* suspension points (the idle wait and the timed wait) it can leave at once,
\* whatever is left of the deadline it sleeps for.
C6_CancelEndsWorker ==
  /\ ctxDone ~> (wpc = "done")
  /\ []((ctxDone /\ wpc \in {"idle", "timed"}) =>
          ENABLED (WorkerExit /\ wpc' = "done"))

\* C6 witness: the worker has returned while an entry is in the index whose
\* deadline has not come and no wake signal is pending.  The last SetTTL's
\* signal was consumed, so the worker peeked that entry and left from the timed
\* wait before the deadline.
C6_Witness ==
  /\ wpc = "done"
  /\ ctxDone
  /\ wake = 0
  /\ Len(heap) > 0
  /\ now < items[heap[1]].ExpiresAt

\* C7: when the worker dispatches the deletion callback of k's entry, the
\* entry is out of the map in the same step, taken with the lock held, so a
\* GetTTL(k) that runs afterwards returns found = false; found becomes true
\* again only by a SetTTL for k.
C7_NoTTLAfterDispatch ==
  [][ \A k \in Keys :
        /\ (\E t \in Times : Dispatches(k, t)) =>
             /\ mu = "worker" /\ mu' = "worker"
             /\ ~GetTTLOf([h |-> heap', it |-> items', e |-> entries'], k).found
        /\ (~GetTTLOf(TTLState, k).found
              /\ GetTTLOf([h |-> heap', it |-> items', e |-> entries'], k).found) =>
             (calls' = calls + 1 /\ ret'.op = "SetTTL" /\ ret'.key = k) ]_vars

\* C7 witness: SetTTL(k) then GetTTL(k): the entry was dispatched in between
\* (its goroutine has not run yet) and GetTTL returned found = false.
C7_Witness ==
  /\ calls = 2
  /\ ret.op = "GetTTL"
  /\ ~ret.found
  /\ \E t \in Times : BagIn([Key |-> ret.key, ExpiresAt |-> t], spawned)

\* ------------------------------------------------------- EXPIRE, TTL, FLUSHALL
\* Connection 1 begins command cmd in this step
Begins(cmd) ==
  conn[1].pc = "idle" /\ calls' # calls /\ conn'[1].cmd = cmd

\* Connection 1 leaves position pc of ParseCommand in this step
Leaves(pc) ==
  conn[1].pc = pc /\ conn'[1].pc # pc

\* C8: EXPIRE key seconds with seconds >= 0 replies 0 and leaves the index as
\* it is when the key is absent from the Store; when the key is present it
\* replies 1 and the index then holds exactly one entry for the key, whose
\* expiration is the time of the call plus seconds.
C8_ExpireSchedules ==
  [][ /\ Begins("EXPIRE") =>
           IF data[conn'[1].key] = NoVal
           THEN /\ conn'[1].reply = EncodeInteger(0)
                /\ UNCHANGED <<heap, items, entries>>
           ELSE conn'[1].pc = "expire_now"
      /\ Leaves("expire_set") =>
           /\ conn'[1].reply = EncodeInteger(1)
           /\ Cardinality(SlotsOfKey(heap', items', conn[1].key)) = 1
           /\ entries'[conn[1].key] # Nil
           /\ items'[entries'[conn[1].key]].ExpiresAt =
                conn[1].t + conn[1].seconds * TicksPerSecond
    ]_vars

\* C8 failing state: EXPIRE with the largest integer has replied 1 and the
\* entry it made expires before the server started, that is before the call.
C8_Witness ==
  /\ conn[1].cmd = "EXPIRE"
  /\ conn[1].reply = EncodeInteger(1)
  /\ made[conn[1].key] = MaxInt
  /\ entries[conn[1].key] # Nil
  /\ items[entries[conn[1].key]].ExpiresAt < 0

\* C9: TTL key replies -2 when the key is absent from the Store, -1 when it is
\* in the Store without a TTL entry, 0 when the entry's remaining time is <= 0,
\* and otherwise the remaining time in whole seconds rounded down, which is
\* never more than the seconds of the EXPIRE that made the entry.
C9_TTLReplies ==
  [][ /\ Begins("TTL") =>
           IF data[conn'[1].key] = NoVal
           THEN conn'[1].reply = EncodeInteger(-2)
           ELSE conn'[1].pc = "ttl_lookup"
      /\ Leaves("ttl_lookup") =>
           IF entries[conn[1].key] = Nil
           THEN conn'[1].reply = EncodeInteger(-1)
           ELSE /\ conn'[1].pc = "ttl_now"
                /\ conn'[1].t = items[entries[conn[1].key]].ExpiresAt
      /\ Leaves("ttl_now") =>
           IF conn[1].t - now <= 0
           THEN conn'[1].reply = EncodeInteger(0)
           ELSE \E n \in 0..MaxInt :
                  /\ conn'[1].reply = EncodeInteger(n)
                  /\ n * TicksPerSecond <= conn[1].t - now
                  /\ conn[1].t - now < (n + 1) * TicksPerSecond
                  /\ n <= made[conn[1].key]
    ]_vars

\* FLUSHALL has replied on connection 1 and no command has begun since
Flushed == conn[1].cmd = "FLUSHALL" /\ conn[1].pc = "idle"

\* C10: after FLUSHALL has replied OK and before any other command, the Store
\* holds no key and the index holds no entry (heap and map both empty); a TTL
\* that comes next replies -2 and the worker dispatches no callback.
C10_FlushClears ==
  /\ [](Flushed =>
          /\ conn[1].reply = EncodeSimpleString(ReturnOK)
          /\ \A k \in Keys : data[k] = NoVal /\ entries[k] = Nil
          /\ heap = <<>>)
  /\ [][(Flushed /\ Begins("TTL")) => conn'[1].reply = EncodeInteger(-2)]_vars
  /\ [][Flushed => ~DispatchStep]_vars

\* C10 witness: FLUSHALL has replied while the worker still sleeps for the
\* deadline of an entry the flush discarded, and the clock has reached it.
C10_Witness ==
  /\ Flushed
  /\ wpc = "timed"
  /\ next # NoTime
  /\ next <= now
  /\ \E k \in Keys : made[k] # NoSecs

\* ------------------------------------------------------- FLUSHALL and others
\* Connection 1 is inside FLUSHALL: the Store is cleared, the index is not yet
Torn == conn[1].pc = "flush_ttl" /\ heap # <<>>

\* C11: FLUSHALL clears the Store and the index together: no command of
\* another connection takes a step while the Store is cleared and the index
\* is not, and a TTL on a key that was SET while a FLUSHALL was running finds
\* no expiration scheduled before the flush.
C11_FlushTogether ==
  /\ [][Torn => conn'[2] = conn[2]]_vars
  /\ [][ ( /\ conn[1].pc = "flush_ttl"
           /\ conn[2].pc = "ttl_lookup"
           /\ conn'[2].pc # "ttl_lookup"
           /\ data[conn[2].key] # NoVal ) =>
         conn'[2].reply = EncodeInteger(-1) ]_vars

\* C11 failing state: connection 1 is still inside FLUSHALL, the key was SET
\* after the Store was cleared, and the TTL that connection 2 sent after its
\* SET has replied with the remaining time of an entry made before the flush.
C11_Witness ==
  /\ conn[1].pc = "flush_ttl"
  /\ data[FlushKey] # NoVal
  /\ conn[2].cmd = "TTL"
  /\ conn[2].pc = "idle"
  /\ conn[2].reply \notin {EncodeInteger(-1), EncodeInteger(-2)}

\* ------------------------------------------------------- expiry end to end
\* A callback for key k is dispatched and has not run yet
Pending(k) == \E g \in BagToSet(spawned) : g.Key = k

\* EXPIRE k has replied 1, no command has begun since, and the entry comes due
\* while the clock runs
Expiring(k) ==
  /\ conn[1].cmd = "EXPIRE"
  /\ conn[1].key = k
  /\ conn[1].pc = "idle"
  /\ conn[1].reply = EncodeInteger(1)
  /\ entries[k] # Nil
  /\ items[entries[k]].ExpiresAt <= MaxTime

\* The callback for k has run: the key is out of the Store and of the index
Expired(k) == data[k] = NoVal /\ entries[k] = Nil /\ ~Pending(k)

\* A later command that writes k has begun
Touched(k) ==
  \/ conn[1].cmd = "SET" /\ conn[1].key = k
  \/ conn[1].cmd = "EXPIRE" /\ conn[1].key = k /\ conn[1].pc # "idle"

\* C12: after EXPIRE k s has replied 1 (s = 0 included), unless a later command
\* writes k, eventually the callback for k has run and the key is gone; from
\* then on GET k replies null and TTL k replies -2.
C12_ExpireDeletes ==
  /\ Expiring(ExpiryKey) ~> (Expired(ExpiryKey) \/ Touched(ExpiryKey))
  /\ [][ (Expired(ExpiryKey) /\ Begins("GET")) =>
           conn'[1].reply = EncodeNullBulkString ]_vars
  /\ [][ (Expired(ExpiryKey) /\ Begins("TTL")) =>
           conn'[1].reply = EncodeInteger(-2) ]_vars

\* C12 witness: EXPIRE k 0 was the second command and GET k the third; the
\* worker has dispatched the callback, which has not run, and GET has replied
\* with the old value.
C12_Witness ==
  /\ made[ExpiryKey] = 0
  /\ conn[1].cmd = "GET"
  /\ conn[1].reply = EncodeBulkString(Ref("v"))
  /\ entries[ExpiryKey] = Nil
  /\ Pending(ExpiryKey)

\* The verbs of the table of COMMAND, and the arity the table gives each of
\* them (the verb itself counted)
Supported == {commands[i].v[1].v : i \in 1..Len(commands)}

ArityOf(verb) ==
  commands[CHOOSE i \in 1..Len(commands) : commands[i].v[1].v = verb].v[2].v

\* In this step ParseCommand answers a request of connection 1 by itself
Answers ==
  /\ conn[1].pc = "idle"
  /\ calls' # calls
  /\ conn'[1].pc = "idle"
  /\ conn'[1].key = NoKey
  /\ conn'[1].cmd = ToUpper(req'.cmd)

\* The request answered in this step names a supported verb with a number of
\* arguments that differs from the verb's arity
WrongArity ==
  /\ Answers
  /\ ToUpper(req'.cmd) \in Supported
  /\ Len(req'.args) + 1 # ArityOf(ToUpper(req'.cmd))

\* C13: a request for a supported verb whose number of arguments differs from
\* the verb's arity gets an error reply that names the usage of that verb, and
\* the Store and the TTL index stay as they are.
C13_WrongArity ==
  [][ WrongArity =>
        /\ HasPrefix(conn'[1].reply,
                      "-" \o GenericErrorPrefix \o " usage: " \o ToUpper(req'.cmd))
        /\ HasSuffix(conn'[1].reply, CRLF)
        /\ UNCHANGED <<data, heap, items, entries>> ]_vars

\* C13 witness: SET with a single argument was answered with the usage of SET
\* while the Store held a key with a TTL.
C13_Witness ==
  /\ ToUpper(req.cmd) = "SET"
  /\ Len(req.args) = 1
  /\ conn[1].cmd = "SET"
  /\ conn[1].reply = EncodeError("ERR usage: SET key value")
  /\ \E k \in Keys : data[k] # NoVal /\ entries[k] # Nil

\* s holds the text p somewhere
Contains(s, p) ==
  \E i \in 1..(Len(s) - Len(p) + 1) : SubSeq(s, i, i + Len(p) - 1) = p

\* An error reply: -<text>\r\n
IsError(reply) == HasPrefix(reply, "-") /\ HasSuffix(reply, CRLF)

\* The request answered in this step is EXPIRE key seconds with a seconds
\* argument that is no number or is negative
BadSeconds ==
  /\ Answers
  /\ ToUpper(req'.cmd) = "EXPIRE"
  /\ Len(req'.args) = 2
  /\ (~Atoi(req'.args[2]).ok \/ Atoi(req'.args[2]).n < 0)

\* The request answered in this step names no supported verb
UnknownVerb == Answers /\ ToUpper(req'.cmd) \notin Supported

\* C14: EXPIRE with a seconds argument that is no number or is negative, and a
\* request with an unknown verb, get an error reply (which names the verb when
\* the verb is unknown) and leave the Store and the TTL index as they are;
\* EXPIRE with seconds = 0 is not rejected: on a key of the Store it replies 1
\* and the index holds an entry for the key.
C14_Rejected ==
  /\ [][ BadSeconds =>
           /\ IsError(conn'[1].reply)
           /\ UNCHANGED <<data, heap, items, entries>> ]_vars
  /\ [][ UnknownVerb =>
           /\ IsError(conn'[1].reply)
           /\ Contains(conn'[1].reply, req'.cmd)
           /\ UNCHANGED <<data, heap, items, entries>> ]_vars
  /\ [](\A k \in ApiKeys : Direct("EXPIRE", <<k, "0">>) = "")
  /\ [][ (Leaves("expire_set") /\ conn[1].seconds = 0) =>
           /\ conn'[1].reply = EncodeInteger(1)
           /\ entries'[conn[1].key] # Nil ]_vars

\* C14 witness: EXPIRE with seconds -1 was rejected while the Store held a key
\* with a TTL made by an EXPIRE with seconds 0.
C14_Witness ==
  /\ ToUpper(req.cmd) = "EXPIRE"
  /\ Len(req.args) = 2
  /\ req.args[2] = "-1"
  /\ conn[1].cmd = "EXPIRE"
  /\ conn[1].reply = EncodeError("ERR invalid seconds value: -1")
  /\ \E k \in Keys : data[k] # NoVal /\ entries[k] # Nil /\ made[k] = 0

\* In this step ParseCommand returns a reply to connection 1
Returns ==
  /\ conn'[1].pc = "idle"
  /\ (calls' # calls \/ conn[1].pc # "idle")

\* The first bytes of the five kinds of reply
ReplyMarkers == {"+", "-", ":", "$", "*"}

\* A reply of one of the five kinds of the wire
IsWireReply(reply) ==
  /\ \E m \in ReplyMarkers : HasPrefix(reply, m)
  /\ HasSuffix(reply, CRLF)

\* C15: PING replies +PONG\r\n, and every reply that ParseCommand returns
\* begins with +, -, :, $ or * and ends with \r\n.
C15_WireReplies ==
  /\ [][ (Returns /\ conn'[1].cmd = "PING") =>
           conn'[1].reply = EncodeSimpleString("PONG") ]_vars
  /\ [][ Returns => IsWireReply(conn'[1].reply) ]_vars

\* C15 witness: PING without arguments was answered.
C15_Witness ==
  /\ ToUpper(req.cmd) = "PING"
  /\ req.args = <<>>
  /\ conn[1].cmd = "PING"
  /\ conn[1].pc = "idle"
  /\ conn[1].reply # NoReply

\* In this step KEYS pattern replies to connection 1
KeysReplies == Begins("KEYS") /\ conn'[1].key # NoKey

\* C16: KEYS pattern replies with an array of exactly the keys of the Store
\* that match the pattern, in some order, when there is one, and with the null
\* array *-1\r\n when there is none.
C16_KeysMatches ==
  [][ KeysReplies =>
        IF Matching(data, conn'[1].key) = {}
        THEN conn'[1].reply = EncodeNullArray
        ELSE \E f \in Orders(Matching(data, conn'[1].key)) :
               conn'[1].reply = EncodeArray(Slice(f)) ]_vars

\* C16 witness: with both keys in the Store, KEYS * replied with the two keys,
\* "b" first.
C16_Witness ==
  /\ \A k \in ApiKeys : data[k] # NoVal
  /\ conn[1].cmd = "KEYS"
  /\ conn[1].key = "*"
  /\ conn[1].reply = EncodeArray(Slice(<<"b", "a">>))

\* The counts below 1 that an array header can hold
EmptyCounts == (0 - MaxInt - 1)..0

\* C17: when the reader holds an array header with a count below 1, 0 and -1
\* included, DecodeCommand fails with 'command must contain at least one
\* element' and has read the header line alone.
C17_EmptyFrame ==
  [][ \A count \in EmptyCounts :
        LET header == "*" \o ToString(count) \o CRLF
        IN  (reader'.n # reader.n /\ HasPrefix(reader.r, header)) =>
              /\ reader'.out.err = "command must contain at least one element"
              /\ reader'.out.panic = ""
              /\ reader'.r = From(reader.r, Len(header)) ]_vars

\* C17 witness: the stream was *-1\r\n followed by a well-formed frame; the
\* first call failed and left the whole second frame in the reader.
C17_Witness ==
  /\ reader.n = 1
  /\ reader.out.err = "command must contain at least one element"
  /\ reader.r = Frame(<<"GET", "a">>)
  /\ conn[1].reply = EncodeError("ERR command must contain at least one element")

\* C18: when the reader holds a well-formed frame followed by any bytes, a
\* call of DecodeCommand returns the first element of the frame as the name
\* and the other elements, in their order, as the arguments (none when the
\* frame has one element), and leaves in the reader exactly the bytes that
\* follow the frame; so frames sent back to back are returned in order.
C18_OneFrame ==
  [][ \A parts \in Lists :
        (reader'.n # reader.n /\ HasPrefix(reader.r, Frame(parts))) =>
          /\ reader'.out = Decoded(Head(parts), Tail(parts),
                                   From(reader.r, Len(Frame(parts))))
          /\ reader'.r = From(reader.r, Len(Frame(parts))) ]_vars

\* C18 witness: two frames were sent back to back and two calls have returned
\* without an error; the second returned the command of the second frame and
\* emptied the reader.
C18_Witness ==
  /\ reader.n = 2
  /\ conn[1].reply = NoReply
  /\ reader.out = Decoded("GET", <<"a">>, "")
  /\ reader.r = ""

\* C19: every call of DecodeCommand ends with a command or with an error, never
\* in a panic, and ParseCommand returns the error as an error reply.
C19_NeverAborts ==
  /\ reader.out.panic = ""
  /\ reader.out.err # "" =>
       conn[1].reply = EncodeError(GenericErrorPrefix \o " " \o reader.out.err)

\* C19 witness: a frame cut short after the length of its element made
\* DecodeCommand fail with EOF, and the reply is the error reply for it.
C19_Witness ==
  /\ reader.n = 1
  /\ reader.out.err = "EOF"
  /\ reader.out.panic = ""
  /\ reader.r = ""
  /\ conn[1].reply = EncodeError("ERR EOF")

\* C20: for every name and list of arguments, empty strings included,
\* DecodeCommand on the bytes that EncodeArray makes of [name, arg1, ..., argN]
\* returns that name and those arguments in the same order, without an error,
\* and reads all the bytes.
C20_RoundTrip ==
  [][ \A parts \in Lists :
        (reader'.n # reader.n /\ reader.r = EncodeArray(Slice(parts))) =>
          /\ reader'.out.err = ""
          /\ reader'.out.panic = ""
          /\ <<reader'.out.cmd>> \o reader'.out.args = parts
          /\ reader'.r = "" ]_vars

\* C20 witness: the frame of GET with an empty argument was sent alone and
\* decoded into GET and the empty argument.
C20_Witness ==
  /\ reader.n = 1
  /\ reader.out.err = ""
  /\ reader.out.cmd = "GET"
  /\ reader.out.args = <<"">>
  /\ reader.r = ""

\* The errors of a read that failed: the stream ended
ReadErrors == {"EOF", "unexpected EOF"}

\* In this step the handler of connection 1 makes a pass of its loop
Handles == reader'.n # reader.n

\* C21: when the read of a request fails (the stream has ended) or the write
\* of a reply fails, the handler closes the connection in that pass of its
\* loop, without writing; a closed connection is read and written no more;
\* and the other connection can still run its commands.
C21_FailureCloses ==
  /\ [][ (Handles /\ reader'.out.err \in ReadErrors) =>
           (~reader'.open /\ reader'.wrote = reader.wrote) ]_vars
  /\ [][ (Handles /\ reader.peerGone /\ reader'.out.panic = "") =>
           (~reader'.open /\ reader'.wrote = reader.wrote) ]_vars
  /\ [][ ~reader.open =>
           (reader'.n = reader.n /\ reader'.wrote = reader.wrote) ]_vars
  /\ []((~reader.open /\ conn[2].pc = "idle" /\ calls < Budget(2)) =>
          ENABLED CmdGet(2, OtherKey))

\* C21 witness: the write of a reply failed after the client had closed, and
\* the handler has closed the connection, having written one reply before.
C21_Witness ==
  /\ ~reader.open
  /\ reader.peerGone
  /\ reader.wrote = 1
  /\ reader.n = 2
  /\ reader.out.err = ""

\* The bulk string of the text w: $<len(w)>\r\n<w>\r\n
Bulk(w) == "$" \o ToString(Len(w)) \o "\r\n" \o w \o "\r\n"

\* The bulk strings of the elements i.. of v, one after the other
RECURSIVE BulksFrom(_, _)
BulksFrom(v, i) == IF i > Len(v) THEN "" ELSE Bulk(v[i]) \o BulksFrom(v, i + 1)

\* C22: EncodeBulkString of nil is $-1\r\n and of a string s, the empty one
\* included, is $<len(s)>\r\n<s>\r\n; EncodeArray of nil is *-1\r\n, of the
\* empty list *0\r\n and of n strings *n\r\n followed by the bulk string of
\* each element in order.
C22_NullAndEmpty ==
  /\ call.fn = "EncodeBulkString" =>
       call.result = IF call.arg.nil THEN "$-1\r\n" ELSE Bulk(call.arg.v)
  /\ call.fn = "EncodeArray" =>
       call.result =
         IF call.arg.nil THEN "*-1\r\n"
         ELSE IF call.arg.v = <<>> THEN "*0\r\n"
         ELSE "*" \o ToString(Len(call.arg.v)) \o "\r\n" \o BulksFrom(call.arg.v, 1)

\* C22 witness: EncodeArray was called on the empty list, which is not nil,
\* and returned *0\r\n.
C22_Witness ==
  /\ call.fn = "EncodeArray"
  /\ ~call.arg.nil
  /\ call.arg.v = <<>>
  /\ call.result = "*0\r\n"

\* A callback goroutine has been started and has not run: its callback is
\* slow, or will never return
CallbackPending == spawned # EmptyBag

\* C23: while a deletion callback is pending, however long, the worker goes
\* on: every entry still leaves the index (the worker dispatches it when it is
\* due) unless the worker is cancelled, the worker holding the lock always
\* has its next step of the drain to take, up to the unlock, and with the
\* lock free SetTTL, GetTTL and FlushAll can run.
C23_SlowCallback ==
  /\ (CallbackPending /\ \E k \in Keys : entries[k] # Nil)
       ~> ((\A k \in Keys : entries[k] = Nil) \/ ctxDone)
  /\ []((CallbackPending /\ mu = "worker") =>
          ENABLED (WorkerExpire \/ WorkerDrainDone))
  /\ []((CallbackPending /\ mu = "free" /\ calls < MaxLiveCalls) =>
          \A k \in ApiKeys :
            /\ ENABLED GetTTL(k)
            /\ ENABLED FlushAll
            /\ ENABLED SetTTL(k, MaxTime))

\* C23 witness: the callback of one key is still pending; the SetTTL of
\* another key, with a later expiration, was made and its callback dispatched
\* too, and the worker is back in its idle wait with the lock free.
C23_Witness ==
  /\ \E g1, g2 \in BagToSet(spawned) :
       /\ g1.Key # g2.Key
       /\ g1.ExpiresAt < g2.ExpiresAt
       /\ ret.op = "SetTTL"
       /\ ret.key = g2.Key
  /\ wpc = "idle"
  /\ mu = "free"
  /\ heap = <<>>

\* In this step a callback goroutine runs
CallbackRuns == \E g \in BagToSet(spawned) : spawned' = spawned (-) SetToBag({g})

\* C24: a callback that calls SetTTL, GetTTL or FlushAll on its scheduler runs
\* with the lock free, never inside the worker's critical section; while a
\* callback is pending there is no deadlock: with the lock free every pending
\* callback can make its call, and the worker that holds the lock has a step
\* to take; and every pending callback completes.
C24_CallbackOutsideLock ==
  /\ [][ CallbackRuns => (mu = "free" /\ wpc # "drain") ]_vars
  /\ [](CallbackPending =>
          IF mu = "free"
          THEN \A g \in BagToSet(spawned) : ENABLED CallbackGetTTL(g)
          ELSE ENABLED Worker)
  /\ CallbackPending ~> ~CallbackPending

\* C24 witness: a callback has called SetTTL for its key and returned; the
\* entry it made is in the index and no callback is pending.
C24_Witness ==
  /\ ret.op = "DeleteFn SetTTL"
  /\ entries[ret.key] # Nil
  /\ items[entries[ret.key]].ExpiresAt = MaxTime
  /\ ~CallbackPending
  /\ wpc = "timed"

\* C25: while the worker is blocked in the timed select for the deadline next
\* and no wake signal is pending, no entry of the heap expires before next;
\* while it is blocked in the idle select and no wake signal is pending, the
\* heap is empty.
C25_SleepPreempted ==
  /\ (wpc = "timed" /\ wake = 0) =>
       \A i \in 1..Len(heap) : items[heap[i]].ExpiresAt >= next
  /\ (wpc = "idle" /\ wake = 0) => heap = <<>>

\* C25 witness: the worker, asleep until the deadline of one entry, has been
\* woken by the SetTTL of an earlier one and sleeps again, now until the
\* earlier deadline, with the wake signal consumed.
C25_Witness ==
  /\ wpc = "timed"
  /\ wake = 0
  /\ Len(heap) = 2
  /\ items[heap[1]].ExpiresAt = next
  /\ items[heap[2]].ExpiresAt > next
  /\ ret.op = "SetTTL"
  /\ ret.at = next
  /\ ret.key = items[heap[1]].Key

\* C26: the worker starts the callback of a key only for the entry the index
\* holds for the key at that moment, only when that entry's ExpiresAt is not
\* after now, and the step takes the entry out of the map and the heap, so
\* that no entry is dispatched twice; an entry that was overwritten or flushed
\* is in neither and is never dispatched.
C26_DispatchCurrentExpired ==
  [][ \A g \in BagToSet(spawned') :
        (spawned' = spawned (+) SetToBag({g})) =>
          /\ InIndex(g.Key, g.ExpiresAt)
          /\ g.ExpiresAt <= now
          /\ \A i \in 1..Len(heap) :
               items[heap[i]].Key = g.Key => i = 1
          /\ entries'[g.Key] = Nil
          /\ \A i \in 1..Len(heap') : items'[heap'[i]].Key # g.Key ]_vars

\* C26 witness: the callback of one key has been started at its deadline while
\* another key, whose TTL a later SetTTL extended, is past its old deadline
\* and still in the index, the worker asleep until the new one.
C26_Witness ==
  /\ ret.op = "SetTTL"
  /\ ret.found
  /\ ret.old <= now
  /\ now < ret.at
  /\ InIndex(ret.key, ret.at)
  /\ wpc = "timed"
  /\ next = ret.at
  /\ \E g \in BagToSet(spawned) : g.Key # ret.key /\ g.ExpiresAt = ret.old

\* C27: when the client has sent a malformed frame followed by a well-formed
\* one and DecodeCommand fails on the first, the connection stays open and
\* the reader is left at the first byte of the second frame: nothing of the
\* rejected frame is left to be read as a frame of its own.
C27_ErrorSkipsFrame ==
  [][ \A m \in Malformed \cup Rejected, g \in RequestFrames :
        ( /\ reader.sent
          /\ reader.n = 0
          /\ ~reader.peerGone
          /\ reader.r = m \o g
          /\ Handles
          /\ reader'.out.panic = ""
          /\ reader'.out.err # "" ) =>
            /\ reader'.open
            /\ reader'.wrote = 1
            /\ reader'.r = g ]_vars

\* C27 witness: the first frame was rejected and answered with one error
\* reply, and the bytes left to read are one well-formed frame.
C27_Witness ==
  /\ reader.n = 1
  /\ reader.out.err # ""
  /\ reader.open
  /\ reader.wrote = 1
  /\ reader.r \in RequestFrames
  /\ IsError(conn[1].reply)

\* C28: a deletion callback that runs for a key whose value was stored by a
\* SET made after the callback was started leaves that value in the Store.
C28_CallbackSparesNewValue ==
  [][ \A g \in BagToSet(spawned) :
        (spawned' = spawned (-) SetToBag({g}) /\ fresh[g.Key]) =>
          data'[g.Key] = data[g.Key] ]_vars

\* C28 witness: the worker has started the callback for a key, SET has stored
\* the key again and replied OK, and the callback has not run yet.
C28_Witness ==
  \E k \in ApiKeys :
    /\ Pending(k)
    /\ fresh[k]
    /\ data[k] # NoVal
    /\ entries[k] = Nil
    /\ conn[1].pc = "idle"
    /\ conn[1].cmd = "SET"
    /\ conn[1].key = k
    /\ conn[1].reply = EncodeSimpleString(ReturnOK)

\* C29: for a key that DEL removed and SET stored again, with no EXPIRE issued
\* since, TTL finds no expiration and replies -1, and the worker starts no
\* deletion callback.
C29_RebornHasNoTTL ==
  /\ [][ ( /\ conn[2].pc = "ttl_lookup"
           /\ conn'[2] # conn[2]
           /\ reborn[conn[2].key] = "reborn" ) =>
             /\ conn'[2].pc = "idle"
             /\ conn'[2].reply = EncodeInteger(-1) ]_vars
  /\ [][ \A g \in BagToSet(spawned') :
           (spawned' = spawned (+) SetToBag({g})) =>
             reborn[g.Key] # "reborn" ]_vars

\* C29 witness: the key was removed with DEL and stored again, and TTL has
\* replied -1 for it.
C29_Witness ==
  /\ reborn[RebornKey] = "reborn"
  /\ data[RebornKey] # NoVal
  /\ conn[2].pc = "idle"
  /\ conn[2].cmd = "TTL"
  /\ conn[2].key = RebornKey
  /\ conn[2].reply = EncodeInteger(-1)

\* C30: for every seconds value EXPIRE accepts, the duration it computes is
\* not negative and the entry it schedules does not expire before the time of
\* the call, which is the time.Now() EXPIRE read.
C30_ExpireNeverEarlier ==
  [][ Leaves("expire_set") =>
        /\ SecondsToDuration(conn[1].seconds) >= 0
        /\ entries'[conn[1].key] # Nil
        /\ items'[entries'[conn[1].key]].ExpiresAt >= conn[1].t ]_vars

\* C30 witness: EXPIRE with a large number of seconds whose duration still
\* fits the integer has replied 1, and its entry expires that many seconds
\* after the call or later.
C30_Witness ==
  /\ conn[1].cmd = "EXPIRE"
  /\ conn[1].reply = EncodeInteger(1)
  /\ made[conn[1].key] = BigSecs
  /\ entries[conn[1].key] # Nil
  /\ items[entries[conn[1].key]].ExpiresAt >= BigSecs * TicksPerSecond
====
